---- MODULE Spec2Model ----
(***************************************************************************)
(* PortfolioOS desktop shell: the window registry (useWindowManagement,    *)
(* Desktop.openWindow, Desktop.handleTaskbarClick), the menu coordinator   *)
(* (useMenuManagement), the session lock (useDesktopMeta,                  *)
(* Desktop.handleLock), the icon layout engine (useIconManagement) and the *)
(* icon drag controller (Icon).                                            *)
(*                                                                         *)
(* React applies the state updates queued by one event handler together,   *)
(* and renders before the next event is dispatched, so every handler is    *)
(* one atomic action and its functional updaters are applied in queue      *)
(* order.                                                                  *)
(***************************************************************************)
EXTENDS Integers, Sequences, FiniteSets, TLC

VARIABLES
    windows,            \* useWindowManagement: AppWindow[] in array order
    isLocked,           \* useDesktopMeta: lock flag
    bsod,               \* useDesktopMeta: fault overlay flag
    bsodTimers,         \* pending setTimeout(() => setBsod(false), 2000) callbacks
    startOpen,          \* useMenuManagement: start menu flag
    calendarOpen,       \* useMenuManagement: calendar flag
    contextMenu,        \* useMenuManagement: {visible, x, y}
    data,               \* usePortfolioData: data.desktopConfig.icons, in file order
    allProcessedIcons,  \* useIconManagement: the icon catalog, sorted
    iconPositions,      \* useIconManagement: icon id -> grid cell {x: col, y: row}
    sortState,          \* useIconManagement: {key, direction}
    iconSize,           \* Desktop: "small" | "medium" | "large"
    desktopRect,        \* geometry of the desktop-main element (desktopRef.current)
    drag,               \* Icon: the controller of the icon under the pointer
    gesture,            \* history: the current press/move/release gesture
    sortCalls,          \* history: the keys sortIcons was called with, in call order
    calendar,           \* Calendar: displayDate, view, animationDirection, isScrolling, timeouts
    lastOp              \* history: the handler that ran last, its argument and branch

winVars == <<windows, bsod, bsodTimers, calendar>>
menuVars == <<startOpen, calendarOpen, contextMenu, calendar>>
dragVars == <<drag, gesture, calendar>>
iconVars == <<data, allProcessedIcons, iconPositions, sortState, iconSize, desktopRect, drag, gesture,
              sortCalls, calendar>>
vars == <<windows, isLocked, bsod, bsodTimers, startOpen, calendarOpen, contextMenu,
          data, allProcessedIcons, iconPositions, sortState, iconSize, desktopRect, drag, gesture,
          sortCalls, lastOp, calendar>>

(***************************************************************************)
(* Bounds of the model.                                                    *)
(***************************************************************************)
\* z-indices grow without limit in the code; the model stops raising at MaxZ.
MaxZ == 4
\* pending fault-overlay timers the model lets accumulate
MaxBsodTimers == 1

(***************************************************************************)
(* Program constants.                                                      *)
(***************************************************************************)
DEFAULT_WINDOW_WIDTH == 640
DEFAULT_WINDOW_HEIGHT == 480
AUTO_WIDTH_ESTIMATE == 400
AUTO_HEIGHT_ESTIMATE == 300
FALLBACK_X == 150
FALLBACK_Y == 100
CASCADE_STEP == 30
CASCADE_MOD == 10

(***************************************************************************)
(* Generic helpers.                                                        *)
(***************************************************************************)
Max(S) == CHOOSE m \in S : \A n \in S : n <= m

Op(name, id, branch) == [op |-> name, id |-> id, branch |-> branch]

(***************************************************************************)
(* The Calendar component: paging between months, years and decades.  A    *)
(* date is the number of its month counted from January of year 0; the    *)
(* component reads only getFullYear() and getMonth() of displayDate.       *)
(***************************************************************************)
\* the months the model pages through
MaxCalendarMonth == 13
\* the setTimeout callbacks that may be pending together
MaxCalendarTimers == 3

\* null as the newDate or the newView of changeActiveDisplay
NoDate == -1
NoView == ""

\* new Date(): the month the component is mounted in
Today == 12

getFullYear(date) == date \div 12
getMonth(date) == date % 12
\* new Date(year, month, 1)
DateOf(year, month) == year * 12 + month

\* useState(new Date()), useState("days"), useState(null), useRef(false)
InitialCalendar ==
    [ displayDate |-> Today, view |-> "days", animationDirection |-> "",
      isScrolling |-> FALSE, timers |-> <<>> ]

\* prevGridData.date and nextGridData.date of the useMemo
prevDate(c) ==
    CASE c.view = "days"   -> DateOf(getFullYear(c.displayDate), getMonth(c.displayDate) - 1)
      [] c.view = "months" -> DateOf(getFullYear(c.displayDate) - 1, getMonth(c.displayDate))
      [] c.view = "years"  -> DateOf(getFullYear(c.displayDate) - 10, getMonth(c.displayDate))

nextDate(c) ==
    CASE c.view = "days"   -> DateOf(getFullYear(c.displayDate), getMonth(c.displayDate) + 1)
      [] c.view = "months" -> DateOf(getFullYear(c.displayDate) + 1, getMonth(c.displayDate))
      [] c.view = "years"  -> DateOf(getFullYear(c.displayDate) + 10, getMonth(c.displayDate))

\* the dates the model keeps
InCalendar(date) == date = NoDate \/ date \in 0..MaxCalendarMonth

\* setTimeout(() => {...}, 250) of changeActiveDisplay, and
\* setTimeout(() => { isScrolling.current = false }, 350) of handleWheelScroll
DisplayTimer(newDate, newView) == [kind |-> "display", date |-> newDate, view |-> newView]
ClearTimer == [kind |-> "clear", date |-> NoDate, view |-> NoView]

\* the display changes that are pending
PendingDisplay(c) == {i \in DOMAIN c.timers : c.timers[i].kind = "display"}

\* changeActiveDisplay with the isScrolling latch set as well
changeActiveDisplay_Latches(c, newDate, newView, direction) ==
    [c EXCEPT !.animationDirection = direction,
              !.isScrolling = TRUE,
              !.timers = Append(@, DisplayTimer(newDate, newView))]

\* changeActiveDisplay: setAnimationDirection(direction), and the change
\* itself in a timeout
changeActiveDisplay(c, newDate, newView, direction) ==
    [c EXCEPT !.animationDirection = direction,
              !.timers = Append(@, DisplayTimer(newDate, newView))]

\* the Calendar returns null unless open, and Desktop mounts it unlocked
CalendarShown == ~isLocked /\ calendarOpen

\* room for n more timeouts
TimerRoom(n) == Len(calendar.timers) + n <= MaxCalendarTimers

calendarStep(name, arg, c) ==
    /\ calendar' = c
    /\ lastOp' = Op(name, arg, IF c = calendar THEN "ignored" ELSE "transition")
    /\ UNCHANGED <<windows, isLocked, bsod, bsodTimers, startOpen, calendarOpen, contextMenu,
                   data, allProcessedIcons, iconPositions, sortState, iconSize, desktopRect,
                   drag, gesture, sortCalls>>

handlePrev ==
    /\ CalendarShown /\ TimerRoom(1) /\ InCalendar(prevDate(calendar))
    /\ calendarStep("handlePrev", "",
          IF calendar.isScrolling THEN calendar
          ELSE changeActiveDisplay(calendar, prevDate(calendar), NoView, "up"))

handleNext ==
    /\ CalendarShown /\ TimerRoom(1) /\ InCalendar(nextDate(calendar))
    /\ calendarStep("handleNext", "",
          IF calendar.isScrolling THEN calendar
          ELSE changeActiveDisplay(calendar, nextDate(calendar), NoView, "down"))

handleHeaderClick ==
    /\ CalendarShown /\ TimerRoom(1)
    /\ calendarStep("handleHeaderClick", "",
          IF calendar.isScrolling THEN calendar
          ELSE IF calendar.view = "days"
               THEN changeActiveDisplay(calendar, NoDate, "months", "zoom-out")
          ELSE IF calendar.view = "months"
               THEN changeActiveDisplay(calendar, NoDate, "years", "zoom-out")
          ELSE calendar)

\* a cell of the month grid, which the months view renders
handleSelectMonth(monthIndex) ==
    /\ CalendarShown /\ TimerRoom(1) /\ calendar.view = "months"
    /\ InCalendar(DateOf(getFullYear(calendar.displayDate), monthIndex))
    /\ calendarStep("handleSelectMonth", "",
          IF calendar.isScrolling THEN calendar
          ELSE changeActiveDisplay(calendar,
                   DateOf(getFullYear(calendar.displayDate), monthIndex), "days", "zoom-in"))

\* a cell of the year grid, which the years view renders
handleSelectYear(year) ==
    /\ CalendarShown /\ TimerRoom(1) /\ calendar.view = "years"
    /\ InCalendar(DateOf(year, getMonth(calendar.displayDate)))
    /\ calendarStep("handleSelectYear", "",
          IF calendar.isScrolling THEN calendar
          ELSE changeActiveDisplay(calendar,
                   DateOf(year, getMonth(calendar.displayDate)), "months", "zoom-in"))

handleWheelScroll(deltaY) ==
    /\ CalendarShown /\ TimerRoom(2)
    /\ InCalendar(prevDate(calendar)) /\ InCalendar(nextDate(calendar))
    /\ calendarStep("handleWheelScroll", "",
          IF calendar.view # "days" \/ calendar.isScrolling THEN calendar
          ELSE IF deltaY > 1
               THEN LET c == changeActiveDisplay([calendar EXCEPT !.isScrolling = TRUE],
                                                 nextDate(calendar), NoView, "down")
                    IN  [c EXCEPT !.timers = Append(@, ClearTimer)]
          ELSE IF deltaY < -1
               THEN LET c == changeActiveDisplay([calendar EXCEPT !.isScrolling = TRUE],
                                                 prevDate(calendar), NoView, "up")
                    IN  [c EXCEPT !.timers = Append(@, ClearTimer)]
          ELSE calendar)

RemoveAt(seq, i) == SubSeq(seq, 1, i - 1) \o SubSeq(seq, i + 1, Len(seq))

\* the 250 ms callback of changeActiveDisplay; callbacks of one delay run in
\* the order they were set
displayTimeout ==
    \E i \in PendingDisplay(calendar) :
        /\ \A j \in PendingDisplay(calendar) : i <= j
        /\ LET t == calendar.timers[i]
           IN  calendarStep("displayTimeout", "",
                  [calendar EXCEPT
                      !.displayDate = IF t.date # NoDate THEN t.date ELSE @,
                      !.view = IF t.view # NoView THEN t.view ELSE @,
                      !.animationDirection = "",
                      !.timers = RemoveAt(@, i)])

\* the 350 ms callback of handleWheelScroll; it runs after every callback
\* that was set before it
scrollTimeout ==
    /\ calendar.timers # <<>>
    /\ calendar.timers[1].kind = "clear"
    /\ calendarStep("scrollTimeout", "",
          [calendar EXCEPT !.isScrolling = FALSE, !.timers = Tail(@)])

(***************************************************************************)
(* Icon catalog entries (DesktopIconDef).  content and filePath are kept   *)
(* as presence flags: the handlers only test them for truthiness.          *)
(***************************************************************************)
IconDef(id, content, filePath, resizable, show) ==
    [id |-> id, title |-> id, content |-> content, filePath |-> filePath,
     resizable |-> resizable, showOnDesktop |-> show]

\* the catalog of the shell specification: two applications and the fault icon
ShellCatalog ==
    << IconDef("about", TRUE, FALSE, TRUE, TRUE),
       IconDef("browser", FALSE, FALSE, TRUE, TRUE),
       IconDef("games", TRUE, FALSE, FALSE, TRUE) >>

CatalogIds == {allProcessedIcons[i].id : i \in DOMAIN allProcessedIcons}

(***************************************************************************)
(* Window registry: the updater functions handed to setWindows.            *)
(***************************************************************************)
WindowIds(ws) == {ws[i].id : i \in DOMAIN ws}

HasWindow(ws, id) == id \in WindowIds(ws)

\* Math.max(...prevWindows.map((w) => w.zIndex), 0)
MaxZIndex(prevWindows) == Max({prevWindows[i].zIndex : i \in DOMAIN prevWindows} \cup {0})

\* prevWindows.find((w) => w.id === id): the first match
FindWindow(ws, id) == ws[CHOOSE i \in DOMAIN ws : ws[i].id = id /\ \A j \in 1..(i-1) : ws[j].id # id]

\* bringToFront reusing the current maximum instead of going above it
bringToFrontUpdater_NoIncrement(prevWindows, id) ==
    LET maxZ == MaxZIndex(prevWindows)
        F(w) == IF w.id = id THEN [w EXCEPT !.zIndex = maxZ, !.minimized = FALSE] ELSE w
    IN  [i \in DOMAIN prevWindows |-> F(prevWindows[i])]

\* bringToFront leaving a window alone that is already above the others
bringToFrontUpdater_SkipsTopmost(prevWindows, id) ==
    LET maxZ == MaxZIndex(prevWindows)
        F(w) == IF w.id = id /\ w.zIndex < maxZ
                THEN [w EXCEPT !.zIndex = maxZ + 1, !.minimized = FALSE]
                ELSE IF w.id = id THEN [w EXCEPT !.minimized = FALSE] ELSE w
    IN  [i \in DOMAIN prevWindows |-> F(prevWindows[i])]

bringToFrontUpdater(prevWindows, id) ==
    LET maxZ == MaxZIndex(prevWindows)
        F(w) == IF w.id = id THEN [w EXCEPT !.zIndex = maxZ + 1, !.minimized = FALSE] ELSE w
    IN  [i \in DOMAIN prevWindows |-> F(prevWindows[i])]

\* closeWindow hiding the window instead of removing it
closeWindowUpdater_Hides(prev, id) ==
    LET F(w) == IF w.id = id THEN [w EXCEPT !.minimized = TRUE] ELSE w
    IN  [i \in DOMAIN prev |-> F(prev[i])]

\* closeWindow as findIndex and splice: an id that is not found gives index -1,
\* and splice(-1, 1) removes the last window
closeWindowUpdater_Splice(prev, id) ==
    IF HasWindow(prev, id) THEN SelectSeq(prev, LAMBDA w : w.id # id)
    ELSE SubSeq(prev, 1, Len(prev) - 1)

closeWindowUpdater(prev, id) == SelectSeq(prev, LAMBDA w : w.id # id)

\* minimizeWindow also taking the window out of the maximized state
minimizeWindowUpdater_ClearsMaximized(prev, id) ==
    LET F(w) == IF w.id = id THEN [w EXCEPT !.minimized = TRUE, !.maximized = FALSE] ELSE w
    IN  [i \in DOMAIN prev |-> F(prev[i])]

minimizeWindowUpdater(prev, id) ==
    LET F(w) == IF w.id = id THEN [w EXCEPT !.minimized = TRUE] ELSE w
    IN  [i \in DOMAIN prev |-> F(prev[i])]

\* toggleMaximize storing the maximized geometry in the window
toggleMaximizeUpdater_StoresGeometry(prev, id) ==
    LET F(w) == IF w.id = id
                THEN [w EXCEPT !.maximized = ~w.maximized,
                               !.position = IF w.maximized THEN @ ELSE [x |-> 0, y |-> 0]]
                ELSE w
    IN  bringToFrontUpdater([i \in DOMAIN prev |-> F(prev[i])], id)

\* setWindows(flip maximized) followed by bringToFront(id)
toggleMaximizeUpdater(prev, id) ==
    LET F(w) == IF w.id = id THEN [w EXCEPT !.maximized = ~w.maximized] ELSE w
    IN  bringToFrontUpdater([i \in DOMAIN prev |-> F(prev[i])], id)

showDesktopUpdater(prev) ==
    LET F(w) == [w EXCEPT !.minimized = TRUE]
    IN  [i \in DOMAIN prev |-> F(prev[i])]

(***************************************************************************)
(* CSS lengths as react-rnd reports them at the end of a resize            *)
(* (ref.style.width): a string of characters, here a tuple of one-letter   *)
(* strings.  parseInt reads the leading decimal digits.                    *)
(***************************************************************************)
Digits == <<"0", "1", "2", "3", "4", "5", "6", "7", "8", "9">>

IsDigit(c) == \E d \in DOMAIN Digits : Digits[d] = c

DigitVal(c) == (CHOOSE d \in DOMAIN Digits : Digits[d] = c) - 1

RECURSIVE ParseDigits(_, _, _)
ParseDigits(str, i, acc) ==
    IF i > Len(str) \/ ~IsDigit(str[i]) THEN acc
    ELSE ParseDigits(str, i + 1, acc * 10 + DigitVal(str[i]))

\* the number NaN, which no comparison with a number satisfies; the model
\* writes it as a value below every length a parse can give
NaN == -1

\* parseInt: the leading decimal digits, NaN when there is none
parseInt(str) ==
    IF Len(str) = 0 \/ ~IsDigit(str[1]) THEN NaN ELSE ParseDigits(str, 1, 0)

Px(a, b, c) == <<a, b, c, "p", "x">>

(***************************************************************************)
(* Window geometry.  size.auto stands for {width: "auto", height: "auto"}. *)
(***************************************************************************)
PxSize(w, h) == [auto |-> FALSE, width |-> w, height |-> h]

AutoSize == [auto |-> TRUE, width |-> 0, height |-> 0]

DefaultWindowSize == PxSize(DEFAULT_WINDOW_WIDTH, DEFAULT_WINDOW_HEIGHT)

\* Window.windowSize: what Rnd is given as size, in per cent when maximized
windowSize(windowData) ==
    IF windowData.maximized
    THEN [unit |-> "%", auto |-> FALSE, width |-> 100, height |-> 100]
    ELSE [unit |-> "px", auto |-> windowData.size.auto, width |-> windowData.size.width,
          height |-> windowData.size.height]

\* Window.windowPosition: what Rnd is given as position
windowPosition(windowData) ==
    IF windowData.maximized THEN [x |-> 0, y |-> 0] ELSE windowData.position

handleWindowDragUpdater(prev, id, newPosition) ==
    LET F(w) == IF w.id = id THEN [w EXCEPT !.position = newPosition] ELSE w
    IN  [i \in DOMAIN prev |-> F(prev[i])]

handleWindowResizeUpdater(prev, id, newSize, newPosition) ==
    LET F(w) == IF w.id = id
                THEN [w EXCEPT !.size = PxSize(parseInt(newSize.width), parseInt(newSize.height)),
                               !.position = newPosition]
                ELSE w
    IN  [i \in DOMAIN prev |-> F(prev[i])]

(***************************************************************************)
(* Desktop.openWindow: the updater handed to setWindows.  mounted says     *)
(* whether desktopRef.current exists, rect is its bounding rectangle.      *)
(* The desktop widths and heights of the model are even, so the halving    *)
(* is exact as it is in the code.                                          *)
(***************************************************************************)
InitialSize(iconDef) == IF ~iconDef.resizable THEN AutoSize ELSE DefaultWindowSize

InitialX(initialSize, mounted, rect) ==
    IF mounted
    THEN (rect.width - (IF initialSize.auto THEN AUTO_WIDTH_ESTIMATE ELSE initialSize.width)) \div 2
    ELSE FALLBACK_X

InitialY(initialSize, mounted, rect) ==
    IF mounted
    THEN (rect.height - (IF initialSize.auto THEN AUTO_HEIGHT_ESTIMATE ELSE initialSize.height)) \div 2
    ELSE FALLBACK_Y

\* the cascade stepping with every window, without wrapping
CascadeOffset_NoWrap(prevWindows) == Len(prevWindows) * CASCADE_STEP

CascadeOffset(prevWindows) == (Len(prevWindows) % CASCADE_MOD) * CASCADE_STEP

\* a new window placed at the current maximum z-index instead of above it
NewWindow_NoIncrement(prevWindows, iconDef, mounted, rect) ==
    LET initialSize == InitialSize(iconDef)
    IN  [id |-> iconDef.id,
         minimized |-> FALSE,
         maximized |-> FALSE,
         zIndex |-> MaxZIndex(prevWindows),
         position |-> [x |-> InitialX(initialSize, mounted, rect) + CascadeOffset(prevWindows),
                       y |-> InitialY(initialSize, mounted, rect) + CascadeOffset(prevWindows)],
         size |-> initialSize,
         resizable |-> iconDef.resizable]

NewWindow(prevWindows, iconDef, mounted, rect) ==
    LET initialSize == InitialSize(iconDef)
    IN  [id |-> iconDef.id,
         minimized |-> FALSE,
         maximized |-> FALSE,
         zIndex |-> MaxZIndex(prevWindows) + 1,
         position |-> [x |-> InitialX(initialSize, mounted, rect) + CascadeOffset(prevWindows),
                       y |-> InitialY(initialSize, mounted, rect) + CascadeOffset(prevWindows)],
         size |-> initialSize,
         resizable |-> iconDef.resizable]

\* openWindow raising an existing window without clearing its minimized flag
openWindowUpdater_KeepsMinimized(prevWindows, iconDef, mounted, rect) ==
    IF HasWindow(prevWindows, iconDef.id)
    THEN LET maxZ == MaxZIndex(prevWindows)
             F(w) == IF w.id = iconDef.id THEN [w EXCEPT !.zIndex = maxZ + 1] ELSE w
         IN  [i \in DOMAIN prevWindows |-> F(prevWindows[i])]
    ELSE Append(prevWindows, NewWindow(prevWindows, iconDef, mounted, rect))

openWindowUpdater(prevWindows, iconDef, mounted, rect) ==
    IF HasWindow(prevWindows, iconDef.id)
    THEN LET found == FindWindow(prevWindows, iconDef.id)
             maxZ == MaxZIndex(prevWindows)
             F(w) == IF w.id = found.id
                     THEN [w EXCEPT !.zIndex = maxZ + 1, !.minimized = FALSE]
                     ELSE w
         IN  [i \in DOMAIN prevWindows |-> F(prevWindows[i])]
    ELSE Append(prevWindows, NewWindow(prevWindows, iconDef, mounted, rect))

\* the special "apps" that open no window
IsFaultIcon(iconDef) == ~iconDef.content /\ ~iconDef.filePath /\ iconDef.id = "browser"

(***************************************************************************)
(* Focus: Desktop.handleTaskbarClick's topWindow.                          *)
(***************************************************************************)
RECURSIVE ReduceTop(_, _, _)
\* .reduce((top, w) => (w.zIndex > (top?.zIndex ?? -1) ? w : top), null): the index kept, 0 for null
ReduceTop(ws, i, top) ==
    IF i > Len(ws) THEN top
    ELSE ReduceTop(ws, i + 1,
                   IF ws[i].zIndex > (IF top = 0 THEN -1 ELSE ws[top].zIndex) THEN i ELSE top)

\* topWindow taken over all windows, minimized ones included
TopWindowId_IncludesMinimized(ws) ==
    LET top == ReduceTop(ws, 1, 0)
    IN  IF top = 0 THEN "" ELSE ws[top].id

\* id of topWindow, "" when there is none (topWindow?.id undefined)
TopWindowId(ws) ==
    LET visible == SelectSeq(ws, LAMBDA w : ~w.minimized)
        top == ReduceTop(visible, 1, 0)
    IN  IF top = 0 THEN "" ELSE visible[top].id

handleTaskbarClickBranch(ws, id) ==
    IF ~HasWindow(ws, id) THEN "unknown"
    ELSE IF FindWindow(ws, id).minimized THEN "restore"
    ELSE IF id = TopWindowId(ws) THEN "minimize"
    ELSE "focus"

handleTaskbarClickUpdater(ws, id) ==
    LET branch == handleTaskbarClickBranch(ws, id)
    IN  CASE branch = "unknown" -> ws
          [] branch = "restore" -> bringToFrontUpdater(ws, id)
          [] branch = "minimize" -> minimizeWindowUpdater(ws, id)
          [] branch = "focus" -> bringToFrontUpdater(ws, id)

(***************************************************************************)
(* Inputs of the shell specification.                                      *)
(***************************************************************************)
\* where react-rnd may drop a window (d.x, d.y)
DragPositions == {[x |-> 40, y |-> 60]}

\* what react-rnd may report after a resize (ref.style.width/height, pos)
ResizeSizes == {[width |-> Px("5", "0", "0"), height |-> Px("3", "5", "0")]}

ResizePositions == {[x |-> 10, y |-> 20]}

\* where the pointer may be at a contextmenu event (clientX, clientY)
ContextMenuPoints == {[x |-> 200, y |-> 120]}

\* what a global mousedown may land on
ClickTargets == {"start", "calendar", "context", "outside"}

ShellDesktopRect == [left |-> 0, top |-> 0, width |-> 1280, height |-> 720]

\* the model stops raising z-indices at MaxZ
ZRoom == MaxZIndex(windows) < MaxZ

\* desktop-main, the taskbar and the menus are rendered only while unlocked
Rendered == ~isLocked

(***************************************************************************)
(* Window registry actions (useWindowManagement, Desktop).                 *)
(***************************************************************************)
bringToFront(id) ==
    /\ Rendered
    /\ windows' = bringToFrontUpdater(windows, id)
    /\ lastOp' = Op("bringToFront", id, IF HasWindow(windows, id) THEN "known" ELSE "unknown")
    /\ UNCHANGED <<isLocked, bsod, bsodTimers, menuVars, iconVars>>

closeWindow(id) ==
    /\ Rendered
    /\ windows' = closeWindowUpdater(windows, id)
    /\ lastOp' = Op("closeWindow", id, IF HasWindow(windows, id) THEN "known" ELSE "unknown")
    /\ UNCHANGED <<isLocked, bsod, bsodTimers, menuVars, iconVars>>

minimizeWindow(id) ==
    /\ Rendered
    /\ windows' = minimizeWindowUpdater(windows, id)
    /\ lastOp' = Op("minimizeWindow", id, IF HasWindow(windows, id) THEN "known" ELSE "unknown")
    /\ UNCHANGED <<isLocked, bsod, bsodTimers, menuVars, iconVars>>

toggleMaximize(id) ==
    /\ Rendered
    /\ windows' = toggleMaximizeUpdater(windows, id)
    /\ lastOp' = Op("toggleMaximize", id, IF HasWindow(windows, id) THEN "known" ELSE "unknown")
    /\ UNCHANGED <<isLocked, bsod, bsodTimers, menuVars, iconVars>>

showDesktop ==
    /\ Rendered
    /\ windows' = showDesktopUpdater(windows)
    /\ lastOp' = Op("showDesktop", "", "")
    /\ UNCHANGED <<isLocked, bsod, bsodTimers, menuVars, iconVars>>

\* Desktop renders a Window for every window that is not minimized
WindowRendered(id) ==
    /\ Rendered
    /\ HasWindow(windows, id)
    /\ ~FindWindow(windows, id).minimized

\* a Window whose Rnd is neither told to drag nor to resize, maximized or not
RndEnabled_IgnoresMaximized(id) == WindowRendered(id)

\* react-rnd drags and resizes only a rendered (non-minimized) window that is
\* not maximized (Window: disableDragging, enableResizing)
RndEnabled(id) ==
    /\ Rendered
    /\ HasWindow(windows, id)
    /\ ~FindWindow(windows, id).minimized
    /\ ~FindWindow(windows, id).maximized

\* useWindowManagement.handleWindowDrag, as any caller may call it
handleWindowDrag(id, newPosition) ==
    /\ Rendered
    /\ windows' = handleWindowDragUpdater(windows, id, newPosition)
    /\ lastOp' = Op("handleWindowDrag", id, IF HasWindow(windows, id) THEN "known" ELSE "unknown")
    /\ UNCHANGED <<isLocked, bsod, bsodTimers, menuVars, iconVars>>

\* useWindowManagement.handleWindowResize, as any caller may call it
handleWindowResize(id, newSize, newPosition) ==
    /\ Rendered
    /\ windows' = handleWindowResizeUpdater(windows, id, newSize, newPosition)
    /\ lastOp' = Op("handleWindowResize", id, IF HasWindow(windows, id) THEN "known" ELSE "unknown")
    /\ UNCHANGED <<isLocked, bsod, bsodTimers, menuVars, iconVars>>

\* the user drags the header of a rendered window to d.  Rnd ends the drag
\* with Window.handleDragStop, which calls onDragStop({x: d.x, y: d.y}), that
\* is handleWindowDrag(w.id, newPos); with disableDragging set no drag starts
\* and nothing is called.
handleDragStop(id, d) ==
    /\ WindowRendered(id)
    /\ IF RndEnabled(id)
       THEN handleWindowDrag(id, [x |-> d.x, y |-> d.y])
       ELSE /\ lastOp' = Op("handleDragStop", id, "disabled")
            /\ UNCHANGED <<windows, isLocked, bsod, bsodTimers, menuVars, iconVars>>

\* the user drags a resize handle of a rendered window.  Rnd ends the resize
\* with Window.handleResizeStop, which calls onResizeStop with the element's
\* style width and height and the new position, that is
\* handleWindowResize(w.id, newSize, newPos); with enableResizing false there
\* are no handles and nothing is called.
handleResizeStop(id, style, pos) ==
    /\ WindowRendered(id)
    /\ IF RndEnabled(id)
       THEN handleWindowResize(id, [width |-> style.width, height |-> style.height], pos)
       ELSE /\ lastOp' = Op("handleResizeStop", id, "disabled")
            /\ UNCHANGED <<windows, isLocked, bsod, bsodTimers, menuVars, iconVars>>

openWindowBranch(ws, iconDef) ==
    IF IsFaultIcon(iconDef) THEN "bsod"
    ELSE IF HasWindow(ws, iconDef.id) THEN "existing"
    ELSE "new"

\* the state updates of one openWindow(iconDef) call
openWindowEffect(iconDef) ==
    IF IsFaultIcon(iconDef)
    THEN /\ bsod' = TRUE
         /\ bsodTimers' = bsodTimers + 1
         /\ UNCHANGED windows
    ELSE /\ windows' = openWindowUpdater(windows, iconDef, ~isLocked, desktopRect)
         /\ UNCHANGED <<bsod, bsodTimers>>

openWindow(iconDef) ==
    /\ Rendered
    /\ openWindowEffect(iconDef)
    /\ lastOp' = Op("openWindow", iconDef.id, openWindowBranch(windows, iconDef))
    /\ UNCHANGED <<isLocked, menuVars, iconVars>>

\* setTimeout(() => setBsod(false), 2000) fires
bsodTimeout ==
    /\ bsodTimers > 0
    /\ bsod' = FALSE
    /\ bsodTimers' = bsodTimers - 1
    /\ lastOp' = Op("bsodTimeout", "", "")
    /\ UNCHANGED <<windows, isLocked, menuVars, iconVars>>

handleTaskbarClick(id) ==
    /\ Rendered
    /\ windows' = handleTaskbarClickUpdater(windows, id)
    /\ lastOp' = Op("handleTaskbarClick", id, handleTaskbarClickBranch(windows, id))
    /\ UNCHANGED <<isLocked, bsod, bsodTimers, menuVars, iconVars>>

(***************************************************************************)
(* Icon layout engine (useIconManagement.calculateLayout).                 *)
(***************************************************************************)
CELL_LARGE == 120
CELL_SMALL == 80
CELL_MEDIUM == 100

\* Desktop.cellSize
CellSize(size) == IF size = "large" THEN CELL_LARGE ELSE IF size = "small" THEN CELL_SMALL ELSE CELL_MEDIUM

\* allProcessedIcons.filter((icon) => icon.showOnDesktop)
DesktopIconsToRender(icons) == SelectSeq(icons, LAMBDA icon : icon.showOnDesktop)

\* Math.floor(desktopHeight / cellSize), desktopHeight >= 0
MaxRows(desktopHeight, cellSize) == desktopHeight \div cellSize

RECURSIVE LayoutLoop_NoColumnStep(_, _, _, _, _, _)
\* the loop wrapping the row without advancing the column
LayoutLoop_NoColumnStep(icons, i, col, row, maxRows, newPositions) ==
    IF i > Len(icons) THEN newPositions
    ELSE LET placed == (icons[i].id :> [x |-> col, y |-> row]) @@ newPositions
             wrap == row + 1 >= maxRows
         IN  LayoutLoop_NoColumnStep(icons, i + 1, col,
                                     IF wrap THEN 0 ELSE row + 1,
                                     maxRows, placed)

RECURSIVE LayoutLoop_WrapsLate(_, _, _, _, _, _)
\* the loop wrapping one row too late (row > maxRows instead of row >= maxRows)
LayoutLoop_WrapsLate(icons, i, col, row, maxRows, newPositions) ==
    IF i > Len(icons) THEN newPositions
    ELSE LET placed == (icons[i].id :> [x |-> col, y |-> row]) @@ newPositions
             wrap == row + 1 > maxRows
         IN  LayoutLoop_WrapsLate(icons, i + 1,
                                  IF wrap THEN col + 1 ELSE col,
                                  IF wrap THEN 0 ELSE row + 1,
                                  maxRows, placed)

RECURSIVE LayoutLoop(_, _, _, _, _, _)
\* the for loop: icon i is placed at (col, row), then the cursor advances
LayoutLoop(icons, i, col, row, maxRows, newPositions) ==
    IF i > Len(icons) THEN newPositions
    ELSE LET placed == (icons[i].id :> [x |-> col, y |-> row]) @@ newPositions
             wrap == row + 1 >= maxRows
         IN  LayoutLoop(icons, i + 1,
                        IF wrap THEN col + 1 ELSE col,
                        IF wrap THEN 0 ELSE row + 1,
                        maxRows, placed)

\* a layout that places only the icons that have no cell yet
calculateLayout_KeepsOverrides(icons, mounted, rect, cellSize, prevPositions) ==
    IF ~mounted \/ Len(icons) = 0 THEN prevPositions
    ELSE IF MaxRows(rect.height, cellSize) <= 0 THEN prevPositions
    ELSE prevPositions @@ LayoutLoop(icons, 1, 0, 0, MaxRows(rect.height, cellSize), <<>>)

\* calculateLayout without the test of maxRows
calculateLayout_NoRowGuard(icons, mounted, rect, cellSize, prevPositions) ==
    IF ~mounted \/ Len(icons) = 0 THEN prevPositions
    ELSE LayoutLoop(icons, 1, 0, 0, MaxRows(rect.height, cellSize), <<>>)

\* the icon positions after calculateLayout(); prevPositions when it returns early
calculateLayout(icons, mounted, rect, cellSize, prevPositions) ==
    IF ~mounted \/ Len(icons) = 0 THEN prevPositions
    ELSE IF MaxRows(rect.height, cellSize) <= 0 THEN prevPositions
    ELSE LayoutLoop(icons, 1, 0, 0, MaxRows(rect.height, cellSize), <<>>)

(***************************************************************************)
(* Icon drag controller (Icon).  One pointer: the controller modelled is   *)
(* the one of the icon that was pressed last; an icon that is not pressed  *)
(* has hasMoved = false, isDragging = false and offset = {0, 0}.           *)
(***************************************************************************)
DRAG_THRESHOLD == 5

\* id: the icon pressed; listening: the document mousemove/mouseup listeners
\* are attached; hasMoved, startMousePos: the refs; isDragging, offset: the state
IdleDrag ==
    [id |-> "", listening |-> FALSE, hasMoved |-> FALSE,
     startMousePos |-> [x |-> 0, y |-> 0], isDragging |-> FALSE, offset |-> [x |-> 0, y |-> 0]]

\* maxD2: the largest squared distance of a move event from the press point
\* since the last press; commits: onPositionChange calls since the last press;
\* delivered: the arguments of those calls; release: clientX, clientY of the
\* mouseup event that ended the gesture; repressed: the last press arrived
\* while the listeners of an earlier press were still attached
NoGesture ==
    [maxD2 |-> 0, commits |-> 0, delivered |-> <<>>, release |-> [x |-> 0, y |-> 0],
     repressed |-> FALSE]

\* the threshold test with >= in place of >
ThresholdExceeded_Inclusive(dx, dy) == dx * dx + dy * dy >= DRAG_THRESHOLD * DRAG_THRESHOLD

\* Math.sqrt(dx * dx + dy * dy) > DRAG_THRESHOLD; on integer pixel
\* coordinates the correctly rounded square root exceeds 5 exactly when the
\* sum of squares exceeds 25
ThresholdExceeded(dx, dy) == dx * dx + dy * dy > DRAG_THRESHOLD * DRAG_THRESHOLD

\* Math.round(n / d) for d > 0: halves round towards plus infinity
JsRound(n, d) == (2 * n + d) \div (2 * d)

\* the grid coordinate without Math.max(0, ...)
GridCoord_NoClamp(x, cellSize) == JsRound(x, cellSize)

\* Math.max(0, Math.round(x / cellSize))
GridCoord(x, cellSize) ==
    IF JsRound(x, cellSize) > 0 THEN JsRound(x, cellSize) ELSE 0

\* the icon positions after updateIconPosition(id, mouseX, mouseY)
updateIconPosition_SkipsOccupied(prev, id, mouseX, mouseY, mounted, rect, cellSize) ==
    LET cell == [x |-> GridCoord(mouseX - rect.left, cellSize),
                 y |-> GridCoord(mouseY - rect.top, cellSize)]
    IN  IF ~mounted \/ (\E other \in DOMAIN prev \ {id} : prev[other] = cell) THEN prev
        ELSE (id :> cell) @@ prev

updateIconPosition(prev, id, mouseX, mouseY, mounted, rect, cellSize) ==
    IF ~mounted THEN prev
    ELSE (id :> [x |-> GridCoord(mouseX - rect.left, cellSize),
                 y |-> GridCoord(mouseY - rect.top, cellSize)]) @@ prev

\* handleMouseDown leaving hasMoved as the earlier press left it
handleMouseDown_KeepsLatch(id, point) ==
    /\ Rendered
    /\ id \in {allProcessedIcons[i].id : i \in {j \in DOMAIN allProcessedIcons : allProcessedIcons[j].showOnDesktop}}
    /\ drag.listening => id = drag.id
    /\ drag' = [drag EXCEPT !.id = id, !.listening = TRUE, !.startMousePos = point]
    /\ gesture' = [NoGesture EXCEPT !.repressed = drag.listening]
    /\ lastOp' = Op("handleMouseDown", id, "")
    /\ UNCHANGED <<winVars, menuVars, isLocked, data, allProcessedIcons, iconPositions, sortState,
                   iconSize, desktopRect, sortCalls>>

\* Icon.handleMouseDown on a rendered desktop icon.  handleMouseMove and
\* handleMouseUp are memoized, so a press that arrives while they are still
\* attached (a second mouse button) attaches nothing new: addEventListener
\* ignores a listener that is already registered.
handleMouseDown(id, point) ==
    /\ Rendered
    /\ id \in {allProcessedIcons[i].id : i \in {j \in DOMAIN allProcessedIcons : allProcessedIcons[j].showOnDesktop}}
    /\ drag.listening => id = drag.id
    /\ drag' = [drag EXCEPT !.id = id, !.listening = TRUE, !.hasMoved = FALSE,
                            !.startMousePos = point]
    /\ gesture' = [NoGesture EXCEPT !.repressed = drag.listening]
    /\ lastOp' = Op("handleMouseDown", id, "")
    /\ UNCHANGED <<winVars, menuVars, isLocked, data, allProcessedIcons, iconPositions, sortState,
                   iconSize, desktopRect, sortCalls>>

\* handleMouseMove with hasMoved following the current distance only
handleMouseMove_Unlatches(point) ==
    /\ drag.listening
    /\ LET dx == point.x - drag.startMousePos.x
           dy == point.y - drag.startMousePos.y
           moved == ThresholdExceeded(dx, dy)
           d2 == dx * dx + dy * dy
       IN  /\ drag' = [drag EXCEPT !.hasMoved = moved,
                                   !.isDragging = IF ~drag.hasMoved /\ moved THEN TRUE ELSE @,
                                   !.offset = IF moved THEN [x |-> dx, y |-> dy] ELSE @]
           /\ gesture' = [gesture EXCEPT !.maxD2 = IF d2 > @ THEN d2 ELSE @]
    /\ lastOp' = Op("handleMouseMove", drag.id, "")
    /\ UNCHANGED <<winVars, menuVars, isLocked, data, allProcessedIcons, iconPositions, sortState,
                   iconSize, desktopRect, sortCalls>>

\* a mousemove listener that commits the cell under the pointer while dragging
handleMouseMove_Commits(point) ==
    /\ drag.listening
    /\ LET dx == point.x - drag.startMousePos.x
           dy == point.y - drag.startMousePos.y
           moved == drag.hasMoved \/ ThresholdExceeded(dx, dy)
           d2 == dx * dx + dy * dy
       IN  /\ drag' = [drag EXCEPT !.hasMoved = moved,
                                   !.isDragging = IF ~drag.hasMoved /\ moved THEN TRUE ELSE @,
                                   !.offset = IF moved THEN [x |-> dx, y |-> dy] ELSE @]
           /\ gesture' = [gesture EXCEPT !.maxD2 = IF d2 > @ THEN d2 ELSE @]
           /\ iconPositions' =
                 IF moved
                 THEN updateIconPosition(iconPositions, drag.id, point.x, point.y, ~isLocked,
                                         desktopRect, CellSize(iconSize))
                 ELSE iconPositions
    /\ lastOp' = Op("handleMouseMove", drag.id, "")
    /\ UNCHANGED <<winVars, menuVars, isLocked, data, allProcessedIcons, sortState,
                   iconSize, desktopRect, sortCalls>>

\* Icon.handleMouseMove, the document mousemove listener
handleMouseMove(point) ==
    /\ drag.listening
    /\ LET dx == point.x - drag.startMousePos.x
           dy == point.y - drag.startMousePos.y
           moved == drag.hasMoved \/ ThresholdExceeded(dx, dy)
           d2 == dx * dx + dy * dy
       IN  /\ drag' = [drag EXCEPT !.hasMoved = moved,
                                   !.isDragging = IF ~drag.hasMoved /\ moved THEN TRUE ELSE @,
                                   !.offset = IF moved THEN [x |-> dx, y |-> dy] ELSE @]
           /\ gesture' = [gesture EXCEPT !.maxD2 = IF d2 > @ THEN d2 ELSE @]
    /\ lastOp' = Op("handleMouseMove", drag.id, "")
    /\ UNCHANGED <<winVars, menuVars, isLocked, data, allProcessedIcons, iconPositions, sortState,
                   iconSize, desktopRect, sortCalls>>

\* Icon.handleMouseUp, the document mouseup listener
\* the release committing without a mounted desktop
handleMouseUp_CommitsUnmounted(point) ==
    /\ drag.listening
    /\ iconPositions' =
          IF drag.hasMoved
          THEN updateIconPosition(iconPositions, drag.id, point.x, point.y, TRUE,
                                  desktopRect, CellSize(iconSize))
          ELSE iconPositions
    /\ gesture' = [gesture EXCEPT !.commits = IF drag.hasMoved THEN @ + 1 ELSE @,
                                  !.delivered = IF drag.hasMoved
                                                THEN Append(@, [id |-> drag.id, mouseX |-> point.x,
                                                                mouseY |-> point.y])
                                                ELSE @,
                                  !.release = point]
    /\ drag' = [drag EXCEPT !.listening = FALSE, !.hasMoved = FALSE, !.isDragging = FALSE,
                            !.offset = [x |-> 0, y |-> 0]]
    /\ lastOp' = Op("handleMouseUp", drag.id, IF drag.hasMoved THEN "commit" ELSE "click")
    /\ UNCHANGED <<winVars, menuVars, isLocked, data, allProcessedIcons, sortState, iconSize, desktopRect,
                   sortCalls>>

handleMouseUp(point) ==
    /\ drag.listening
    /\ iconPositions' =
          IF drag.hasMoved
          THEN updateIconPosition(iconPositions, drag.id, point.x, point.y, ~isLocked,
                                  desktopRect, CellSize(iconSize))
          ELSE iconPositions
    /\ gesture' = [gesture EXCEPT !.commits = IF drag.hasMoved THEN @ + 1 ELSE @,
                                  !.delivered = IF drag.hasMoved
                                                THEN Append(@, [id |-> drag.id, mouseX |-> point.x,
                                                                mouseY |-> point.y])
                                                ELSE @,
                                  !.release = point]
    /\ drag' = [drag EXCEPT !.listening = FALSE, !.hasMoved = FALSE, !.isDragging = FALSE,
                            !.offset = [x |-> 0, y |-> 0]]
    /\ lastOp' = Op("handleMouseUp", drag.id, IF drag.hasMoved THEN "commit" ELSE "click")
    /\ UNCHANGED <<winVars, menuVars, isLocked, data, allProcessedIcons, sortState, iconSize, desktopRect,
                   sortCalls>>

(***************************************************************************)
(* Session lock (useDesktopMeta, Desktop.handleLock, Lockscreen).          *)
(***************************************************************************)
\* handleLock leaving the windows as they are
handleLockUpdater_KeepsWindows(prev) == prev

\* setWindows((prev) => prev.map((w) => ({ ...w, minimized: true })))
handleLockUpdater(prev) ==
    LET F(w) == [w EXCEPT !.minimized = TRUE]
    IN  [i \in DOMAIN prev |-> F(prev[i])]

\* handleLock forgetting the context menu
handleLock_KeepsContextMenu ==
    /\ isLocked' = TRUE
    /\ startOpen' = FALSE
    /\ calendarOpen' = FALSE
    /\ contextMenu' = contextMenu
    /\ windows' = handleLockUpdater(windows)

\* Desktop.handleLock
handleLock ==
    /\ isLocked' = TRUE
    /\ startOpen' = FALSE
    /\ calendarOpen' = FALSE
    /\ contextMenu' = [contextMenu EXCEPT !.visible = FALSE]
    /\ windows' = handleLockUpdater(windows)

\* StartMenu.handleLockClick: onLock(); onClose().  The lock button is part
\* of the start menu, which renders nothing unless it is open.
handleLockClick ==
    /\ Rendered
    /\ startOpen
    /\ handleLock
    /\ lastOp' = Op("handleLock", "", IF contextMenu.visible THEN "context-visible" ELSE "context-hidden")
    \* the locked Desktop unmounts the Calendar: its state is lost and its
    \* pending timeouts no longer reach a mounted component
    /\ calendar' = InitialCalendar
    /\ UNCHANGED <<bsod, bsodTimers, data, allProcessedIcons, iconPositions, sortState, iconSize,
                   desktopRect, drag, gesture, sortCalls>>

\* an unlock that puts the windows back on screen
handleUnlock_RestoresWindows ==
    /\ isLocked
    /\ isLocked' = FALSE
    /\ windows' = [i \in DOMAIN windows |-> [windows[i] EXCEPT !.minimized = FALSE]]
    /\ iconPositions' = calculateLayout(DesktopIconsToRender(allProcessedIcons), TRUE,
                                        desktopRect, CellSize(iconSize), iconPositions)
    /\ lastOp' = Op("handleUnlock", "", "")
    /\ UNCHANGED <<bsod, bsodTimers, menuVars, data, allProcessedIcons, sortState, iconSize, desktopRect,
                   dragVars, sortCalls>>

\* Lockscreen.handleSubmit with the right password: onUnlock().  The effect
\* of useIconManagement then runs calculateLayout on the mounted desktop.
\* unlock without the layout effect
handleUnlock_KeepsLayout ==
    /\ isLocked
    /\ isLocked' = FALSE
    /\ lastOp' = Op("handleUnlock", "", "")
    /\ UNCHANGED <<winVars, menuVars, iconVars>>

handleUnlock ==
    /\ isLocked
    /\ isLocked' = FALSE
    /\ iconPositions' = calculateLayout(DesktopIconsToRender(allProcessedIcons), TRUE,
                                        desktopRect, CellSize(iconSize), iconPositions)
    /\ lastOp' = Op("handleUnlock", "", "")
    /\ UNCHANGED <<winVars, menuVars, data, allProcessedIcons, sortState, iconSize, desktopRect, dragVars, sortCalls>>

(***************************************************************************)
(* Menu coordinator (useMenuManagement).                                   *)
(***************************************************************************)
\* toggleStartMenu leaving the calendar as it is
toggleStartMenu_KeepsCalendar ==
    /\ Rendered
    /\ calendarOpen' = calendarOpen
    /\ startOpen' = ~startOpen
    /\ lastOp' = Op("toggleStartMenu", "", IF startOpen THEN "close" ELSE "open")
    /\ UNCHANGED <<contextMenu, winVars, isLocked, iconVars>>

toggleStartMenu ==
    /\ Rendered
    /\ calendarOpen' = FALSE
    /\ startOpen' = ~startOpen
    /\ lastOp' = Op("toggleStartMenu", "", IF startOpen THEN "close" ELSE "open")
    /\ UNCHANGED <<contextMenu, winVars, isLocked, iconVars>>

\* toggleCalendar that opens the calendar and never closes it
toggleCalendar_OnlyOpens ==
    /\ Rendered
    /\ startOpen' = FALSE
    /\ calendarOpen' = TRUE
    /\ lastOp' = Op("toggleCalendar", "", IF calendarOpen THEN "close" ELSE "open")
    /\ UNCHANGED <<contextMenu, winVars, isLocked, iconVars>>

\* toggleCalendar leaving the start menu as it is
toggleCalendar_KeepsStartMenu ==
    /\ Rendered
    /\ startOpen' = startOpen
    /\ calendarOpen' = ~calendarOpen
    /\ lastOp' = Op("toggleCalendar", "", IF calendarOpen THEN "close" ELSE "open")
    /\ UNCHANGED <<contextMenu, winVars, isLocked, iconVars>>

toggleCalendar ==
    /\ Rendered
    /\ startOpen' = FALSE
    /\ calendarOpen' = ~calendarOpen
    /\ lastOp' = Op("toggleCalendar", "", IF calendarOpen THEN "close" ELSE "open")
    /\ UNCHANGED <<contextMenu, winVars, isLocked, iconVars>>

\* the history entry of a handler called with a pointer position
OpAt(name, point, branch) ==
    [op |-> name, id |-> "", branch |-> branch, x |-> point.x, y |-> point.y]

\* handleContextMenu leaving a menu that is already on screen where it is
handleContextMenu_KeepsPosition(point) ==
    /\ Rendered
    /\ contextMenu' = IF contextMenu.visible THEN contextMenu
                      ELSE [visible |-> TRUE, x |-> point.x, y |-> point.y]
    /\ lastOp' = OpAt("handleContextMenu", point, IF contextMenu.visible THEN "visible" ELSE "hidden")
    /\ UNCHANGED <<startOpen, calendarOpen, winVars, isLocked, iconVars>>

\* useMenuManagement.handleContextMenu, the contextmenu handler of desktop-main
handleContextMenu(point) ==
    /\ Rendered
    /\ contextMenu' = [visible |-> TRUE, x |-> point.x, y |-> point.y]
    /\ lastOp' = OpAt("handleContextMenu", point, IF contextMenu.visible THEN "visible" ELSE "hidden")
    /\ UNCHANGED <<startOpen, calendarOpen, winVars, isLocked, iconVars>>

\* ContextMenu.handleClick on an item: item.action(); onClose()
closeContextMenu ==
    /\ Rendered
    /\ contextMenu.visible
    /\ contextMenu' = [contextMenu EXCEPT !.visible = FALSE]
    /\ lastOp' = Op("closeContextMenu", "", "")
    /\ UNCHANGED <<startOpen, calendarOpen, winVars, isLocked, iconVars>>

\* the surfaces that are on screen: a ref is set while its surface is rendered
SurfaceVisible(surface) ==
    CASE surface = "start" -> startOpen
      [] surface = "calendar" -> calendarOpen
      [] surface = "context" -> contextMenu.visible
      [] OTHER -> FALSE

\* a listener that closes every surface on screen, wherever the target is
ClosedByClick_IgnoresTarget(surface, target) == SurfaceVisible(surface)

\* ref.current && !ref.current.contains(target)
ClosedByClick(surface, target) == SurfaceVisible(surface) /\ target # surface

\* history: how many surfaces a mousedown on target closes
ClosedLabel(target) ==
    LET n == Cardinality({surface \in {"start", "calendar", "context"} : ClosedByClick(surface, target)})
    IN  CASE n = 0 -> "closes none"
          [] n = 1 -> "closes one"
          [] n = 2 -> "closes two"
          [] OTHER -> "closes three"

\* the document mousedown listener, attached only while unlocked; the
\* target is inside a surface only if that surface is on screen
handleClickOutside(target) ==
    /\ ~isLocked
    /\ target = "outside" \/ SurfaceVisible(target)
    /\ startOpen' = IF ClosedByClick("start", target) THEN FALSE ELSE startOpen
    /\ calendarOpen' = IF ClosedByClick("calendar", target) THEN FALSE ELSE calendarOpen
    /\ contextMenu' = IF ClosedByClick("context", target)
                      THEN [contextMenu EXCEPT !.visible = FALSE]
                      ELSE contextMenu
    /\ lastOp' = Op("handleClickOutside", target, ClosedLabel(target))
    /\ UNCHANGED <<winVars, isLocked, iconVars>>

\* StartMenu.handleMenuItemClick: item.action() is openWindow(icon), then onClose()
handleMenuItemClick(iconDef) ==
    /\ Rendered
    /\ startOpen
    /\ openWindowEffect(iconDef)
    /\ startOpen' = FALSE
    /\ lastOp' = Op("handleMenuItemClick", iconDef.id, openWindowBranch(windows, iconDef))
    /\ UNCHANGED <<calendarOpen, contextMenu, isLocked, iconVars>>

(***************************************************************************)
(* The window manager: every window operation, with the start menu and the *)
(* session lock that reach into the registry.                              *)
(***************************************************************************)
\* the catalog of the window-manager specification
WindowCatalog ==
    << IconDef("about", TRUE, FALSE, TRUE, TRUE),
       IconDef("games", TRUE, FALSE, FALSE, TRUE) >>

InitWith(catalog) ==
    /\ windows = <<>>
    /\ isLocked = TRUE
    /\ bsod = FALSE
    /\ bsodTimers = 0
    /\ startOpen = FALSE
    /\ calendarOpen = FALSE
    /\ contextMenu = [visible |-> FALSE, x |-> 0, y |-> 0]
    /\ calendar = InitialCalendar
    /\ data = catalog
    /\ allProcessedIcons = catalog
    /\ iconPositions = <<>>
    /\ sortState = [key |-> "name", direction |-> "asc"]
    /\ iconSize = "medium"
    /\ desktopRect = ShellDesktopRect
    /\ drag = IdleDrag
    /\ gesture = NoGesture
    /\ sortCalls = <<>>
    /\ lastOp = Op("init", "", "")

Init == InitWith(WindowCatalog)

RaisesZ(branch) == branch \in {"restore", "focus", "existing", "new", "known"}

\* openWindow and handleMenuItemClick stay within the model's bounds
OpenRoom(iconDef) ==
    IF IsFaultIcon(iconDef) THEN bsodTimers < MaxBsodTimers ELSE ZRoom

WindowOps ==
    \/ \E id \in CatalogIds : ZRoom /\ bringToFront(id)
    \/ \E id \in CatalogIds : closeWindow(id)
    \/ \E id \in CatalogIds : minimizeWindow(id)
    \/ \E id \in CatalogIds : ZRoom /\ toggleMaximize(id)
    \/ showDesktop
    \/ \E i \in DOMAIN allProcessedIcons :
          OpenRoom(allProcessedIcons[i]) /\ openWindow(allProcessedIcons[i])
    \/ \E id \in CatalogIds :
          /\ RaisesZ(handleTaskbarClickBranch(windows, id)) => ZRoom
          /\ handleTaskbarClick(id)
    \/ \E i \in DOMAIN allProcessedIcons :
          OpenRoom(allProcessedIcons[i]) /\ handleMenuItemClick(allProcessedIcons[i])

GeometryOps ==
    \/ \E id \in CatalogIds, d \in DragPositions : handleDragStop(id, d)
    \/ \E id \in CatalogIds, style \in ResizeSizes, pos \in ResizePositions :
          handleResizeStop(id, style, pos)

LockOps ==
    \/ handleLockClick
    \/ handleUnlock

Next ==
    \/ WindowOps
    \/ GeometryOps
    \/ LockOps
    \/ toggleStartMenu

Spec == Init /\ [][Next]_vars

(***************************************************************************)
(* The shell: the three menus, the session lock, the fault overlay and the *)
(* window operations that change which windows are on screen.              *)
(***************************************************************************)
InitShell == InitWith(ShellCatalog)

MenuOps ==
    \/ toggleStartMenu
    \/ toggleCalendar
    \/ \E p \in ContextMenuPoints : handleContextMenu(p)
    \/ closeContextMenu
    \/ \E t \in ClickTargets : handleClickOutside(t)

NextShell ==
    \/ WindowOps
    \/ MenuOps
    \/ LockOps
    \/ bsodTimeout

SpecShell == InitShell /\ [][NextShell]_vars

(***************************************************************************)
(* Opening windows only: every call opens an id that has no window yet.    *)
(***************************************************************************)
OpenCatalog ==
    << IconDef("about", TRUE, FALSE, TRUE, TRUE),
       IconDef("calculator", TRUE, FALSE, FALSE, TRUE),
       IconDef("contact", TRUE, FALSE, TRUE, FALSE),
       IconDef("games", TRUE, FALSE, FALSE, TRUE),
       IconDef("resume", FALSE, TRUE, TRUE, TRUE) >>

InitOpenSeq == InitWith(OpenCatalog)

openFresh ==
    \E i \in DOMAIN allProcessedIcons :
        /\ ~HasWindow(windows, allProcessedIcons[i].id)
        /\ openWindow(allProcessedIcons[i])

NextOpenSeq ==
    \/ handleUnlock
    \/ openFresh

SpecOpenSeq == InitOpenSeq /\ [][NextOpenSeq]_vars

(***************************************************************************)
(* Properties of the window registry.                                      *)
(***************************************************************************)
\* the window with this id (ids are unique among open windows)
WindowOf(ws, id) == ws[CHOOSE i \in DOMAIN ws : ws[i].id = id]

IdsInOrder(ws) == [i \in DOMAIN ws |-> ws[i].id]

\* C1: no two currently open windows have the same z-index, whatever
\* sequence of window operations, lock and unlock has run.
C1_UniqueZIndex ==
    \A i, j \in DOMAIN windows : i # j => windows[i].zIndex # windows[j].zIndex

\* two windows are open and the one opened first has been raised above the other
C1_Witness ==
    /\ Len(windows) = 2
    /\ lastOp.op = "bringToFront"
    /\ windows[1].zIndex > windows[2].zIndex

\* the window with this id is above every other open window
StrictlyTopmost(ws, id) ==
    \A i \in DOMAIN ws : ws[i].id # id => ws[i].zIndex < WindowOf(ws, id).zIndex

\* C2: openWindow on an id that already has a window keeps the number of
\* windows and their ids, leaves exactly one window with that id, and that
\* window is afterwards not minimized and strictly above every other window.
C2_ReopenFocuses ==
    [][ (lastOp'.op = "openWindow" /\ HasWindow(windows, lastOp'.id)) =>
            /\ Len(windows') = Len(windows)
            /\ IdsInOrder(windows') = IdsInOrder(windows)
            /\ Cardinality({i \in DOMAIN windows' : windows'[i].id = lastOp'.id}) = 1
            /\ ~WindowOf(windows', lastOp'.id).minimized
            /\ StrictlyTopmost(windows', lastOp'.id) ]_vars

\* open(about), open(games), open(about): two windows, about above games
C2_Witness ==
    /\ lastOp = Op("openWindow", "about", "existing")
    /\ IdsInOrder(windows) = <<"about", "games">>
    /\ windows[1].zIndex = 3
    /\ windows[2].zIndex = 2
    /\ ~windows[1].minimized

\* C3: a sequence of openWindow calls with pairwise distinct ids: every call
\* adds exactly one window, at the end of the array and for the id of the
\* call, so the windows are the calls in call order; their z-indices are
\* strictly increasing in that order (and so pairwise unique).
C3_DistinctOpens ==
    /\ [](\A i, j \in DOMAIN windows : i < j => windows[i].zIndex < windows[j].zIndex)
    /\ [][ lastOp'.op = "openWindow" =>
              /\ Len(windows') = Len(windows) + 1
              /\ SubSeq(windows', 1, Len(windows)) = windows
              /\ windows'[Len(windows')].id = lastOp'.id ]_vars

\* all five icons of the catalog have been opened
C3_Witness ==
    /\ Len(windows) = Len(allProcessedIcons)
    /\ Len(windows) = 5
    /\ lastOp.op = "openWindow"

\* the focused window: not minimized, and no other non-minimized window is above it
Focused(ws, id) ==
    /\ HasWindow(ws, id)
    /\ ~WindowOf(ws, id).minimized
    /\ \A i \in DOMAIN ws :
          (ws[i].id # id /\ ~ws[i].minimized) => ws[i].zIndex < WindowOf(ws, id).zIndex

\* C4: handleTaskbarClick on an open window: a minimized window becomes
\* non-minimized and focused; the focused window becomes minimized; a
\* non-minimized window that is not focused becomes focused and stays
\* non-minimized.
C4_TaskbarClick ==
    [][ (lastOp'.op = "handleTaskbarClick" /\ HasWindow(windows, lastOp'.id)) =>
            LET id == lastOp'.id
                before == WindowOf(windows, id)
                after == WindowOf(windows', id)
            IN  /\ HasWindow(windows', id)
                /\ before.minimized => (~after.minimized /\ Focused(windows', id))
                /\ (~before.minimized /\ Focused(windows, id)) => after.minimized
                /\ (~before.minimized /\ ~Focused(windows, id)) =>
                       (~after.minimized /\ Focused(windows', id)) ]_vars

\* a click on the taskbar item of a window that was on screen below another one
C4_Witness ==
    /\ lastOp.op = "handleTaskbarClick"
    /\ lastOp.branch = "focus"
    /\ Len(windows) = 2
    /\ \A i \in DOMAIN windows : ~windows[i].minimized
    /\ Focused(windows, lastOp.id)

(***************************************************************************)
(* Properties of the session lock and the menus.                           *)
(***************************************************************************)
NoMenuVisible == ~startOpen /\ ~calendarOpen /\ ~contextMenu.visible

AllMinimized(ws) == \A i \in DOMAIN ws : ws[i].minimized

\* C5: handleLock (through the start menu's lock button), applied to any
\* open windows and any menu state, leaves the session locked, every window
\* minimized, no menu visible, and the open windows (count, ids, order)
\* as they were.
C5_LockEffect ==
    [][ lastOp'.op = "handleLock" =>
            /\ isLocked'
            /\ AllMinimized(windows')
            /\ NoMenuVisible'
            /\ IdsInOrder(windows') = IdsInOrder(windows) ]_vars

\* locked with two windows open while the context menu was on screen
C5_Witness ==
    /\ lastOp = Op("handleLock", "", "context-visible")
    /\ Len(windows) = 2
    /\ isLocked

\* C6: in every locked state, the initial one included, every open window
\* is minimized and no menu is visible.
C6_LockedHidesAll ==
    isLocked => (AllMinimized(windows) /\ NoMenuVisible)

\* the fault overlay's timer fires while the session is locked with windows open
C6_Witness ==
    /\ isLocked
    /\ Len(windows) = 2
    /\ lastOp.op = "bsodTimeout"

VisibleSurfaces == {s \in {"start", "calendar", "context"} : SurfaceVisible(s)}

MaxIcons == 8

LayoutMaster ==
    << IconDef("A", TRUE, FALSE, TRUE, TRUE),
       IconDef("B", TRUE, FALSE, TRUE, TRUE),
       IconDef("C", TRUE, FALSE, TRUE, TRUE),
       IconDef("D", TRUE, FALSE, TRUE, TRUE),
       IconDef("E", TRUE, FALSE, TRUE, TRUE),
       IconDef("F", TRUE, FALSE, TRUE, TRUE),
       IconDef("G", TRUE, FALSE, TRUE, TRUE),
       IconDef("H", TRUE, FALSE, TRUE, FALSE),
       IconDef("I", TRUE, FALSE, TRUE, TRUE),
       IconDef("J", TRUE, FALSE, TRUE, TRUE) >>

Reverse(s) == [i \in DOMAIN s |-> s[Len(s) + 1 - i]]

Prefix(s, n) == SubSeq(s, 1, IF n < Len(s) THEN n ELSE Len(s))

\* clientHeight of the desktop area
LayoutHeights == {0, 79, 250, 300, 360, 720}

IconSizes == {"small", "medium", "large"}

\* positions left behind before the layout runs: none, every desktop icon
\* dragged onto one cell, or an entry of an icon that is gone
PreviousPositions(icons) ==
    { <<>>,
      [id \in {icons[i].id : i \in DOMAIN icons} |-> [x |-> 1, y |-> 1]],
      ("gone" :> [x |-> 0, y |-> 0]) }

InitLayout ==
    /\ windows = <<>>
    /\ isLocked = FALSE
    /\ bsod = FALSE
    /\ bsodTimers = 0
    /\ startOpen = FALSE
    /\ calendarOpen = FALSE
    /\ contextMenu = [visible |-> FALSE, x |-> 0, y |-> 0]
    /\ calendar = InitialCalendar
    /\ \E n \in 0..MaxIcons, dir \in {"asc", "desc"} :
          /\ sortState = [key |-> "name", direction |-> dir]
          /\ data = Prefix(LayoutMaster, n)
          /\ allProcessedIcons =
                (IF dir = "asc" THEN Prefix(LayoutMaster, n) ELSE Reverse(Prefix(LayoutMaster, n)))
    /\ iconPositions \in PreviousPositions(DesktopIconsToRender(allProcessedIcons))
    /\ iconSize \in IconSizes
    /\ \E h \in LayoutHeights : desktopRect = [ShellDesktopRect EXCEPT !.height = h]
    /\ drag = IdleDrag
    /\ gesture = NoGesture
    /\ sortCalls = <<>>
    /\ lastOp = Op("init", "", "")

\* the window resize listener, which is calculateLayout: the viewport has
\* changed and the layout runs on what desktopRef holds
handleResize(h) ==
    /\ desktopRect' = [desktopRect EXCEPT !.height = h]
    /\ iconPositions' = calculateLayout(DesktopIconsToRender(allProcessedIcons), ~isLocked,
                                        desktopRect', CellSize(iconSize), iconPositions)
    /\ lastOp' = Op("handleResize", "", "calculateLayout")
    /\ UNCHANGED <<winVars, menuVars, isLocked, data, allProcessedIcons, sortState, iconSize, dragVars,
                   sortCalls>>

\* setIconSize from the View menu: a new cellSize makes a new calculateLayout,
\* and the layout effect runs it; the same size changes no state
setIconSize(size) ==
    /\ Rendered
    /\ iconSize' = size
    /\ iconPositions' =
          IF size = iconSize THEN iconPositions
          ELSE calculateLayout(DesktopIconsToRender(allProcessedIcons), ~isLocked,
                               desktopRect, CellSize(size), iconPositions)
    /\ lastOp' = Op("setIconSize", size, IF size = iconSize THEN "same" ELSE "calculateLayout")
    /\ UNCHANGED <<winVars, menuVars, isLocked, data, allProcessedIcons, sortState, desktopRect, dragVars,
                   sortCalls>>

\* a resize listener that stays attached while the session is locked
ResizeAttached_Always == TRUE

\* the layout effect adds the resize listener when it runs unlocked and its
\* cleanup removes it
ResizeAttached == ~isLocked

\* the browser window is resized to a viewport of height h
windowResize(h) ==
    IF ResizeAttached
    THEN handleResize(h)
    ELSE /\ desktopRect' = [desktopRect EXCEPT !.height = h]
         /\ lastOp' = Op("resize", "", "detached")
         /\ UNCHANGED <<winVars, menuVars, isLocked, data, allProcessedIcons, iconPositions,
                        sortState, iconSize, dragVars, sortCalls>>

NextLayout ==
    \/ \E h \in LayoutHeights : windowResize(h)
    \/ \E size \in IconSizes : setIconSize(size)

SpecLayout == InitLayout /\ [][NextLayout]_vars

(***************************************************************************)
(* Properties of the automatic layout.                                     *)
(***************************************************************************)
DesktopIds == {allProcessedIcons[i].id : i \in {j \in DOMAIN allProcessedIcons : allProcessedIcons[j].showOnDesktop}}

\* floor(viewport height / cell size) of the current state
CurrentMaxRows == desktopRect.height \div CellSize(iconSize)

\* calculateLayout has just run on a non-empty list with at least one row
LaidOut ==
    /\ lastOp.branch = "calculateLayout"
    /\ DesktopIds # {}
    /\ CurrentMaxRows > 0

\* C8: the automatic layout is injective and stays within the rows: after
\* calculateLayout on icons with distinct ids and maxRows > 0, every desktop
\* icon has a cell, no two of them share one, and 0 <= row < maxRows.
C8_LayoutInjective ==
    LaidOut =>
        /\ DesktopIds \subseteq DOMAIN iconPositions
        /\ \A a, b \in DesktopIds : a # b => iconPositions[a] # iconPositions[b]
        /\ \A a \in DesktopIds :
              /\ iconPositions[a].y >= 0
              /\ iconPositions[a].y < CurrentMaxRows
              /\ iconPositions[a].x >= 0

\* more icons than rows: the layout has wrapped into a third column
C8_Witness ==
    /\ LaidOut
    /\ Cardinality(DesktopIds) = 7
    /\ CurrentMaxRows = 2
    /\ \E a \in DesktopIds : iconPositions[a].x = 3

DesktopList == DesktopIconsToRender(allProcessedIcons)

\* C9: calculateLayout is the column-major fill: the i-th desktop icon
\* (0-based) is at col = i div maxRows, row = i mod maxRows, and only the
\* desktop icons have a cell, whatever the positions were before; with
\* maxRows = 3 the icons A..G are at (0,0) (0,1) (0,2) (1,0) (1,1) (1,2) (2,0).
C9_ColumnMajor ==
    LaidOut =>
        /\ DOMAIN iconPositions = DesktopIds
        /\ \A i \in DOMAIN DesktopList :
              iconPositions[DesktopList[i].id] =
                  [x |-> (i - 1) \div CurrentMaxRows, y |-> (i - 1) % CurrentMaxRows]
        /\ (IdsInOrder(DesktopList) = <<"A", "B", "C", "D", "E", "F", "G">> /\ CurrentMaxRows = 3) =>
              iconPositions = [A |-> [x |-> 0, y |-> 0], B |-> [x |-> 0, y |-> 1],
                               C |-> [x |-> 0, y |-> 2], D |-> [x |-> 1, y |-> 0],
                               E |-> [x |-> 1, y |-> 1], F |-> [x |-> 1, y |-> 2],
                               G |-> [x |-> 2, y |-> 0]]

\* the icons A..G laid out in three rows
C9_Witness ==
    /\ LaidOut
    /\ IdsInOrder(DesktopList) = <<"A", "B", "C", "D", "E", "F", "G">>
    /\ CurrentMaxRows = 3
    /\ iconPositions["G"] = [x |-> 2, y |-> 0]

(***************************************************************************)
(* Dragging desktop icons: press, move and release on an unlocked desktop. *)
(***************************************************************************)
DragCatalog ==
    << IconDef("about", TRUE, FALSE, TRUE, TRUE),
       IconDef("games", TRUE, FALSE, FALSE, TRUE) >>

\* pointer positions (clientX, clientY) of the mouse events
PointerPoints ==
    {[x |-> px, y |-> py] : px \in {100, 103, 105, 106}, py \in {100, 104}}
        \cup {[x |-> 320, y |-> 30]}

InitDrag == InitWith(DragCatalog)

NextDrag ==
    \/ handleUnlock
    \/ \E id \in CatalogIds, p \in PointerPoints : handleMouseDown(id, p)
    \/ \E p \in PointerPoints : handleMouseMove(p)
    \/ \E p \in PointerPoints : handleMouseUp(p)

SpecDrag == InitDrag /\ [][NextDrag]_vars

(***************************************************************************)
(* Properties of the drag controller.                                      *)
(***************************************************************************)
\* the release delivered by this step called onPositionChange
CommitsOnRelease == gesture'.commits = gesture.commits + 1

\* C10: the threshold is strict.  A gesture runs from the last press to the
\* release; if no move event of it was more than 5 px (Euclidean) from the
\* press point, a move of exactly 5 px included, the release commits
\* nothing (no callback, positions unchanged); if some move event was 6 px
\* or more away, the release calls the commit callback.
C10_StrictThreshold ==
    [][ lastOp'.op = "handleMouseUp" =>
            /\ gesture.maxD2 <= 5 * 5 =>
                  (~CommitsOnRelease /\ gesture'.commits = gesture.commits
                      /\ iconPositions' = iconPositions)
            /\ gesture.maxD2 >= 6 * 6 => CommitsOnRelease ]_vars

\* a release after the pointer went exactly 5 px from the press point and no further
C10_Witness ==
    /\ lastOp = Op("handleMouseUp", "about", "click")
    /\ gesture.maxD2 = 25
    /\ gesture.commits = 0

\* some move event since the last press was more than 5 px from the press point
ThresholdWasExceeded == gesture.maxD2 > DRAG_THRESHOLD * DRAG_THRESHOLD

\* C11: in every gesture (from the last press to the release) the commit
\* callback is called only by the release: not at all when no move event
\* exceeded the threshold, and exactly once, with the icon id and the
\* clientX, clientY of the mouseup event, when one did.  No other step calls
\* it, so nothing is committed between a release and the next press; this
\* also holds when the press arrived while an earlier press had not been
\* released.
C11_CommitOnce ==
    [][ /\ lastOp'.op = "handleMouseUp" =>
              /\ gesture.delivered = <<>>
              /\ gesture'.release \in PointerPoints
              /\ ~ThresholdWasExceeded =>
                    (gesture'.delivered = <<>> /\ iconPositions' = iconPositions)
              /\ ThresholdWasExceeded =>
                    gesture'.delivered = << [id |-> lastOp'.id,
                                            mouseX |-> gesture'.release.x,
                                            mouseY |-> gesture'.release.y] >>
        /\ lastOp'.op # "handleMouseUp" =>
              /\ gesture'.delivered \in {<<>>, gesture.delivered}
              /\ lastOp'.op # "handleUnlock" => iconPositions' = iconPositions
        /\ ~drag.listening => lastOp'.op \in {"handleMouseDown", "handleUnlock"} ]_vars

\* a drag was under way when a second press arrived; the pointer then went
\* beyond the threshold again and the release committed once, at its own point
C11_Witness ==
    /\ lastOp = Op("handleMouseUp", "about", "commit")
    /\ gesture.repressed
    /\ gesture.release = [x |-> 320, y |-> 30]
    /\ gesture.delivered = << [id |-> "about", mouseX |-> 320, mouseY |-> 30] >>
    /\ iconPositions["about"] = [x |-> 3, y |-> 0]

(***************************************************************************)
(* Sorting the icons (useIconManagement.sortIcons and the effect that      *)
(* sorts).  Titles and types are strings, here tuples of one-letter        *)
(* strings over lower-case letters, which localeCompare orders             *)
(* alphabetically, a proper prefix first.                                  *)
(***************************************************************************)
\* calls of sortIcons the model follows
MaxSortCalls == 3

Alphabet == <<"a", "b", "f", "g", "n", "o">>

CharRank(c) == CHOOSE k \in DOMAIN Alphabet : Alphabet[k] = c

RECURSIVE localeCompare(_, _)
\* a.localeCompare(b): negative, zero or positive
localeCompare(a, b) ==
    IF a = <<>> /\ b = <<>> THEN 0
    ELSE IF a = <<>> THEN -1
    ELSE IF b = <<>> THEN 1
    ELSE IF CharRank(Head(a)) < CharRank(Head(b)) THEN -1
    ELSE IF CharRank(Head(a)) > CharRank(Head(b)) THEN 1
    ELSE localeCompare(Tail(a), Tail(b))

\* a missing date counted as later than every date
DateValue_MissingLast(icon) == IF icon.dateModified = <<>> THEN 9 ELSE icon.dateModified[1]

\* a.dateModified ? new Date(a.dateModified).getTime() : 0.  dateModified is
\* <<>> when the field is missing or empty and <<t>> when it is a date,
\* t being the time value of that date.
DateValue(icon) == IF icon.dateModified = <<>> THEN 0 ELSE icon.dateModified[1]

\* the comparator ignoring the direction
CompareIcons_IgnoresDirection(a, b, state) ==
    CASE state.key = "type" -> localeCompare(a.type, b.type)
      [] state.key = "dateModified" -> DateValue(a) - DateValue(b)
      [] OTHER -> localeCompare(a.title, b.title)

\* the comparator handed to iconsWithContent.sort
CompareIcons(a, b, state) ==
    LET result == CASE state.key = "type" -> localeCompare(a.type, b.type)
                    [] state.key = "dateModified" -> DateValue(a) - DateValue(b)
                    [] OTHER -> localeCompare(a.title, b.title)
    IN  IF state.direction = "asc" THEN result ELSE -result

RECURSIVE SortLoop(_, _, _, _)
\* Array.prototype.sort is stable: every icon goes behind the icons already
\* placed that do not compare greater than it
SortLoop(icons, i, sorted, state) ==
    IF i > Len(icons) THEN sorted
    ELSE SortLoop(icons, i + 1,
                  SelectSeq(sorted, LAMBDA e : CompareIcons(e, icons[i], state) <= 0)
                      \o <<icons[i]>>
                      \o SelectSeq(sorted, LAMBDA e : CompareIcons(e, icons[i], state) > 0),
                  state)

\* what the effect hands to setAllProcessedIcons
SortedIcons(icons, state) == SortLoop(icons, 1, <<>>, state)

\* sortIcons keeping the previous direction when the key changes
sortIconsUpdater_KeepsDirection(prevState, key) ==
    IF prevState.key = key
    THEN [key |-> key, direction |-> IF prevState.direction = "asc" THEN "desc" ELSE "asc"]
    ELSE [key |-> key, direction |-> prevState.direction]

\* the updater sortIcons hands to setSortState
sortIconsUpdater(prevState, key) ==
    IF prevState.key = key
    THEN [key |-> key, direction |-> IF prevState.direction = "asc" THEN "desc" ELSE "asc"]
    ELSE [key |-> key, direction |-> "asc"]

SortKeys == {"name", "type", "dateModified"}

\* a click on an item of the "Sort by" submenu: item.action() is
\* sortIcons(key), then onClose().  The new sortState runs the sorting
\* effect, the new icon list the filter effect, and the new
\* desktopIconsToRender make a new calculateLayout, which the layout effect
\* runs.
sortIcons(key) ==
    /\ Rendered
    /\ contextMenu.visible
    /\ sortState' = sortIconsUpdater(sortState, key)
    /\ allProcessedIcons' = SortedIcons(data, sortState')
    /\ iconPositions' = calculateLayout(DesktopIconsToRender(allProcessedIcons'), ~isLocked,
                                        desktopRect, CellSize(iconSize), iconPositions)
    /\ contextMenu' = [contextMenu EXCEPT !.visible = FALSE]
    /\ sortCalls' = Append(sortCalls, key)
    /\ lastOp' = Op("sortIcons", key,
                    IF sortState.key = key THEN sortState.direction ELSE "other key")
    /\ UNCHANGED <<winVars, startOpen, calendarOpen, isLocked, data, iconSize, desktopRect, dragVars>>

\* an entry of data.desktopConfig.icons with the fields the sort reads
SortIconDef(id, title, type, dateModified) ==
    [id |-> id, title |-> title, content |-> TRUE, filePath |-> FALSE, resizable |-> TRUE,
     showOnDesktop |-> TRUE, type |-> type, dateModified |-> dateModified]

\* four icons: two of one type, one without a type, two of one date, one without a date
SortCatalog ==
    << SortIconDef("about", <<"a", "b">>, <<"a">>, <<3>>),
       SortIconDef("games", <<"g", "a">>, <<"a">>, <<>>),
       SortIconDef("notes", <<"n", "o">>, <<>>, <<1>>),
       SortIconDef("a", <<"a">>, <<"f">>, <<3>>) >>

\* the file may list the icons in any order
SortData ==
    { [i \in DOMAIN SortCatalog |-> SortCatalog[p[i]]] :
          p \in {q \in [DOMAIN SortCatalog -> DOMAIN SortCatalog] :
                    \A i, j \in DOMAIN SortCatalog : i # j => q[i] # q[j]} }

InitialSortState == [key |-> "name", direction |-> "asc"]

InitSort ==
    /\ windows = <<>>
    /\ isLocked = TRUE
    /\ bsod = FALSE
    /\ bsodTimers = 0
    /\ startOpen = FALSE
    /\ calendarOpen = FALSE
    /\ contextMenu = [visible |-> FALSE, x |-> 0, y |-> 0]
    /\ calendar = InitialCalendar
    /\ data \in SortData
    /\ sortState = InitialSortState
    /\ allProcessedIcons = SortedIcons(data, sortState)
    /\ iconPositions = <<>>
    /\ iconSize = "medium"
    /\ desktopRect = ShellDesktopRect
    /\ drag = IdleDrag
    /\ gesture = NoGesture
    /\ sortCalls = <<>>
    /\ lastOp = Op("init", "", "")

NextSort ==
    \/ handleUnlock
    \/ \E p \in ContextMenuPoints : handleContextMenu(p)
    \/ \E key \in SortKeys : Len(sortCalls) < MaxSortCalls /\ sortIcons(key)

SpecSort == InitSort /\ [][NextSort]_vars

(***************************************************************************)
(* Properties of sorting.                                                  *)
(***************************************************************************)
\* C12: sortIcons(key) with the current key keeps the key and flips the
\* direction; with another key it sets that key and the ascending
\* direction, whatever the direction was.
C12_SortToggle ==
    [][ lastOp'.op = "sortIcons" =>
            LET key == lastOp'.id
            IN  /\ sortState'.key = key
                /\ key = sortState.key =>
                      /\ sortState.direction = "asc" => sortState'.direction = "desc"
                      /\ sortState.direction = "desc" => sortState'.direction = "asc"
                /\ key # sortState.key => sortState'.direction = "asc" ]_vars

\* the key has just been changed to "type" while the direction was descending
C12_Witness ==
    /\ lastOp = Op("sortIcons", "type", "other key")
    /\ sortCalls = <<"name", "type">>
    /\ sortState = [key |-> "type", direction |-> "asc"]

TitlesInOrder == [i \in DOMAIN allProcessedIcons |-> allProcessedIcons[i].title]

\* the icons are in ascending (sign = 1) or descending (sign = -1) order of title
OrderedByName(sign) ==
    \A i, j \in DOMAIN allProcessedIcons :
        i < j => sign * localeCompare(allProcessedIcons[i].title, allProcessedIcons[j].title) <= 0

\* C13 as claimed: from the initial sort state, sortIcons("name") twice
\* leaves the icons in descending name order, and sortIcons("type") after
\* sortIcons("name") leaves the sort state at type, ascending.
C13_NameTwiceDescending ==
    /\ sortCalls = <<"name", "name">> =>
          (sortState = [key |-> "name", direction |-> "desc"] /\ OrderedByName(-1))
    /\ sortCalls = <<"name", "type">> => sortState = [key |-> "type", direction |-> "asc"]

\* C13, amended: the initial sort state is already name, ascending, so the
\* first sortIcons("name") gives descending name order and the second gives
\* ascending name order again; sortIcons("type") after sortIcons("name")
\* leaves the sort state at type, ascending.
C13_NameTwiceAscending ==
    /\ sortCalls = <<>> => (sortState = InitialSortState /\ OrderedByName(1))
    /\ sortCalls = <<"name">> =>
          (sortState = [key |-> "name", direction |-> "desc"] /\ OrderedByName(-1))
    /\ sortCalls = <<"name", "name">> => (sortState = InitialSortState /\ OrderedByName(1))
    /\ sortCalls = <<"name", "type">> => sortState = [key |-> "type", direction |-> "asc"]

\* sortIcons("name") has run twice on a file that lists the icons in another order
C13_Witness ==
    /\ sortCalls = <<"name", "name">>
    /\ lastOp.op = "sortIcons"
    /\ TitlesInOrder = << <<"a">>, <<"a", "b">>, <<"g", "a">>, <<"n", "o">> >>
    /\ data[1].id = "notes"

(***************************************************************************)
(* The registry on its own: the operations useWindowManagement and Desktop *)
(* export, called by any collaborator with any id of the catalog, whether  *)
(* that id has a window or not and whatever the state of its window.       *)
(***************************************************************************)
InitRegistry == InitWith(WindowCatalog)

\* sizes a caller may hand to handleWindowResize: a usual one, one below
\* the minimum of the Window, and one that is no length
RegistrySizes ==
    ResizeSizes
        \cup { [width |-> <<"1", "0", "0", "p", "x">>, height |-> <<"5", "0", "p", "x">>],
               [width |-> Px("4", "0", "0"), height |-> <<"a", "u", "t", "o">>] }

\* an operation that raises a z-index stays within the model's bound
RaiseRoom(id) == HasWindow(windows, id) => ZRoom

NextRegistry ==
    \/ handleUnlock
    \/ \E i \in DOMAIN allProcessedIcons :
          OpenRoom(allProcessedIcons[i]) /\ openWindow(allProcessedIcons[i])
    \/ \E id \in CatalogIds : closeWindow(id)
    \/ \E id \in CatalogIds : minimizeWindow(id)
    \/ \E id \in CatalogIds : RaiseRoom(id) /\ toggleMaximize(id)
    \/ \E id \in CatalogIds : RaiseRoom(id) /\ bringToFront(id)
    \/ \E id \in CatalogIds, p \in DragPositions : handleWindowDrag(id, p)
    \/ \E id \in CatalogIds, sz \in RegistrySizes, p \in ResizePositions :
          handleWindowResize(id, sz, p)
    \/ \E id \in CatalogIds :
          /\ RaisesZ(handleTaskbarClickBranch(windows, id)) => ZRoom
          /\ handleTaskbarClick(id)

SpecRegistry == InitRegistry /\ [][NextRegistry]_vars

\* the operations that take the id of a window
IdOperations ==
    {"closeWindow", "minimizeWindow", "toggleMaximize", "bringToFront", "handleWindowDrag",
     "handleWindowResize", "handleTaskbarClick"}

\* C14: closeWindow, minimizeWindow, toggleMaximize, bringToFront,
\* handleWindowDrag, handleWindowResize and handleTaskbarClick, called with
\* an id that has no window, leave the window array as it was: the same
\* windows in the same order with the same z-indices, flags and geometry.
\* (An error in an updater would stop the evaluation of the step.)
C14_UnknownIdNoOp ==
    [][ (lastOp'.op \in IdOperations /\ ~HasWindow(windows, lastOp'.id)) =>
            /\ windows' = windows
            /\ lastOp'.branch = "unknown" ]_vars

\* closeWindow("about") while only a maximized, raised "games" window is open
C14_Witness ==
    /\ lastOp = Op("closeWindow", "about", "unknown")
    /\ IdsInOrder(windows) = <<"games">>
    /\ windows[1].maximized
    /\ windows[1].zIndex = 2

(***************************************************************************)
(* More properties of the layout engine.                                   *)
(***************************************************************************)
\* C15: when floor(viewport height / cell size) <= 0, calculateLayout
\* returns before setIconPositions: every icon keeps the cell it had,
\* manual placements included, and no entry is added or removed.
C15_NoRowsNoLayout ==
    [][ (lastOp'.branch = "calculateLayout" /\ CurrentMaxRows' <= 0) =>
            iconPositions' = iconPositions ]_vars

\* the viewport has shrunk below one medium cell while seven icons sat on one cell
C15_Witness ==
    /\ lastOp = Op("handleResize", "", "calculateLayout")
    /\ desktopRect.height = 79
    /\ iconSize = "medium"
    /\ CurrentMaxRows = 0
    /\ Cardinality(DesktopIds) = 7
    /\ iconPositions = [id \in DesktopIds |-> [x |-> 1, y |-> 1]]

(***************************************************************************)
(* Opening many windows: eleven applications, opened in the order of the   *)
(* catalog on desktops of several sizes; the oldest window may be closed   *)
(* and its application opened again.                                       *)
(***************************************************************************)
\* z-indices keep growing when windows are closed and opened again; the
\* model stops opening at MaxCascadeZ
MaxCascadeZ == 12

CascadeCatalog ==
    << IconDef("about", TRUE, FALSE, TRUE, TRUE),
       IconDef("calculator", TRUE, FALSE, FALSE, TRUE),
       IconDef("contact", TRUE, FALSE, TRUE, FALSE),
       IconDef("explorer", TRUE, FALSE, TRUE, TRUE),
       IconDef("games", TRUE, FALSE, FALSE, TRUE),
       IconDef("minesweeper", TRUE, FALSE, FALSE, FALSE),
       IconDef("notes", FALSE, FALSE, TRUE, TRUE),
       IconDef("projects", TRUE, FALSE, TRUE, TRUE),
       IconDef("resume", FALSE, TRUE, TRUE, TRUE),
       IconDef("skills", TRUE, FALSE, TRUE, TRUE),
       IconDef("wordle", FALSE, TRUE, FALSE, TRUE) >>

\* bounding rectangles of the desktop area
CascadeRects ==
    {[left |-> 0, top |-> 0, width |-> w, height |-> h] : w \in {1280, 1024}, h \in {720, 600}}

InitCascade ==
    /\ windows = <<>>
    /\ isLocked = TRUE
    /\ bsod = FALSE
    /\ bsodTimers = 0
    /\ startOpen = FALSE
    /\ calendarOpen = FALSE
    /\ contextMenu = [visible |-> FALSE, x |-> 0, y |-> 0]
    /\ calendar = InitialCalendar
    /\ data = CascadeCatalog
    /\ allProcessedIcons = CascadeCatalog
    /\ iconPositions = <<>>
    /\ sortState = InitialSortState
    /\ iconSize = "medium"
    /\ desktopRect \in CascadeRects
    /\ drag = IdleDrag
    /\ gesture = NoGesture
    /\ sortCalls = <<>>
    /\ lastOp = Op("init", "", "")

\* the first application of the catalog that has no window is opened
openNext ==
    \E i \in DOMAIN allProcessedIcons :
        /\ ~HasWindow(windows, allProcessedIcons[i].id)
        /\ \A j \in 1..(i - 1) : HasWindow(windows, allProcessedIcons[j].id)
        /\ MaxZIndex(windows) < MaxCascadeZ
        /\ openWindow(allProcessedIcons[i])

\* the close button of the window that was opened first
closeOldest ==
    /\ windows # <<>>
    /\ closeWindow(windows[1].id)

NextCascade ==
    \/ handleUnlock
    \/ openNext
    \/ closeOldest

SpecCascade == InitCascade /\ [][NextCascade]_vars

\* the icon of the catalog with this id
IconOf(id) == allProcessedIcons[CHOOSE i \in DOMAIN allProcessedIcons : allProcessedIcons[i].id = id]

\* C16: openWindow(iconDef) for an id that has no window (and an iconDef
\* that opens a window: the fault icon opens none) appends exactly one
\* window and leaves the others as they were.  The new window is neither
\* minimized nor maximized; its z-index is the largest z-index before the
\* call (0 without windows) plus 1; its size is 640 x 480, or auto when
\* iconDef.resizable is false; its position is the centred placement on the
\* desktop area (an auto size counted as 400 x 300) plus, on both axes,
\* 30 px times the number of windows open before the call modulo 10.
C16_OpenNewWindow ==
    [][ (lastOp'.op = "openWindow" /\ lastOp'.branch = "new") =>
            LET n == Len(windows)
                icon == IconOf(lastOp'.id)
                new == windows'[n + 1]
                step == 30 * (n % 10)
                zs == {windows[i].zIndex : i \in DOMAIN windows}
            IN  /\ ~HasWindow(windows, lastOp'.id)
                /\ Len(windows') = n + 1
                /\ SubSeq(windows', 1, n) = windows
                /\ new.id = lastOp'.id
                /\ ~new.minimized
                /\ ~new.maximized
                /\ new.zIndex = (IF zs = {} THEN 0 ELSE Max(zs)) + 1
                /\ icon.resizable =>
                      /\ new.size = [auto |-> FALSE, width |-> 640, height |-> 480]
                      /\ new.position = [x |-> (desktopRect.width - 640) \div 2 + step,
                                         y |-> (desktopRect.height - 480) \div 2 + step]
                /\ ~icon.resizable =>
                      /\ new.size.auto
                      /\ new.position = [x |-> (desktopRect.width - 400) \div 2 + step,
                                         y |-> (desktopRect.height - 300) \div 2 + step] ]_vars

\* the eleventh window: ten were open, so the cascade starts again at the
\* centred placement (an auto-sized window on a 1024 x 600 desktop)
C16_Witness ==
    /\ lastOp = Op("openWindow", "wordle", "new")
    /\ Len(windows) = 11
    /\ desktopRect.width = 1024
    /\ desktopRect.height = 600
    /\ windows[11].position = [x |-> 312, y |-> 150]
    /\ windows[11].size.auto
    /\ windows[10].position = [x |-> 192 + 270, y |-> 60 + 270]

(***************************************************************************)
(* Frame properties of the window operations, on the window manager with   *)
(* its start menu and session lock.                                        *)
(***************************************************************************)
\* position of the window with this id in the array
IndexOf(ws, id) == CHOOSE i \in DOMAIN ws : ws[i].id = id

\* every window but the one at index i is as it was
OthersUnchanged(i) ==
    /\ Len(windows') = Len(windows)
    /\ \A j \in DOMAIN windows : j # i => windows'[j] = windows[j]

\* C17: bringToFront(id) on an open window sets its z-index to the largest
\* z-index of all open windows, minimized ones included, plus 1, and its
\* minimized flag to false; a window that already has the largest z-index
\* still gets a z-index one higher than before; nothing else changes.
C17_BringToFront ==
    [][ (lastOp'.op = "bringToFront" /\ HasWindow(windows, lastOp'.id)) =>
            LET i == IndexOf(windows, lastOp'.id)
                top == Max({windows[j].zIndex : j \in DOMAIN windows})
            IN  /\ windows' = [windows EXCEPT ![i].zIndex = top + 1, ![i].minimized = FALSE]
                /\ OthersUnchanged(i)
                /\ windows[i].zIndex = top => windows'[i].zIndex = windows[i].zIndex + 1 ]_vars

\* "games", opened second and already above "about", has been brought to front
C17_Witness ==
    /\ lastOp = Op("bringToFront", "games", "known")
    /\ IdsInOrder(windows) = <<"about", "games">>
    /\ windows[1].zIndex = 1
    /\ windows[2].zIndex = 3

\* C18: minimizeWindow(id) on an open window sets its minimized flag and
\* nothing else: its z-index, maximized flag, position and size, and every
\* other window, are as they were.
C18_MinimizeFrame ==
    [][ (lastOp'.op = "minimizeWindow" /\ HasWindow(windows, lastOp'.id)) =>
            LET i == IndexOf(windows, lastOp'.id)
            IN  /\ windows'[i].minimized
                /\ windows' = [windows EXCEPT ![i].minimized = TRUE]
                /\ OthersUnchanged(i) ]_vars

\* the topmost window, resized and then maximized, has been minimized
C18_Witness ==
    /\ lastOp = Op("minimizeWindow", "about", "known")
    /\ Len(windows) = 2
    /\ WindowOf(windows, "about").minimized
    /\ WindowOf(windows, "about").maximized
    /\ WindowOf(windows, "about").size = PxSize(500, 350)
    /\ StrictlyTopmost(windows, "about")

\* the stored geometry of a window
Geometry(w) == [position |-> w.position, size |-> w.size]

\* C19: toggleMaximize(id) on an open window flips its maximized flag and
\* brings it to front (strictly above every other window, not minimized);
\* the stored position and size stay, only what the Window hands to Rnd
\* changes (100% at the origin while maximized, the stored geometry
\* otherwise); nothing else changes.  Two calls in a row give back the
\* maximized flag and the stored geometry of before.
C19_ToggleMaximize ==
    /\ [](\A i \in DOMAIN windows :
             LET id == windows[i].id
                 twice == toggleMaximizeUpdater(toggleMaximizeUpdater(windows, id), id)
             IN  /\ twice[i].maximized = windows[i].maximized
                 /\ Geometry(twice[i]) = Geometry(windows[i])
                 /\ windowPosition(twice[i]) = windowPosition(windows[i])
                 /\ windowSize(twice[i]) = windowSize(windows[i]))
    /\ [][ (lastOp'.op = "toggleMaximize" /\ HasWindow(windows, lastOp'.id)) =>
              LET i == IndexOf(windows, lastOp'.id)
                  before == windows[i]
                  after == windows'[i]
              IN  /\ after.maximized = ~before.maximized
                  /\ ~after.minimized
                  /\ StrictlyTopmost(windows', lastOp'.id)
                  /\ Geometry(after) = Geometry(before)
                  /\ after.maximized =>
                        /\ windowPosition(after) = [x |-> 0, y |-> 0]
                        /\ windowSize(after).unit = "%"
                  /\ ~after.maximized =>
                        /\ windowPosition(after) = before.position
                        /\ windowSize(after).unit = "px"
                        /\ windowSize(after).width = before.size.width
                        /\ windowSize(after).height = before.size.height
                  /\ OthersUnchanged(i) ]_vars

\* a resized window has been maximized and restored: it shows its stored geometry
C19_Witness ==
    /\ lastOp = Op("toggleMaximize", "about", "known")
    /\ IdsInOrder(windows) = <<"about">>
    /\ ~windows[1].maximized
    /\ windows[1].zIndex = 3
    /\ windows[1].size = PxSize(500, 350)
    /\ windows[1].position = [x |-> 10, y |-> 20]

\* the ends of a drag or a resize of a rendered window
GeometryOperations == {"handleWindowDrag", "handleWindowResize", "handleDragStop", "handleResizeStop"}

Without(ws, id) == SelectSeq(ws, LAMBDA w : w.id # id)

\* the handlers that call openWindow
OpenOperations == {"openWindow", "handleMenuItemClick"}

\* C21: closeWindow(id) removes the window id and nothing else: the other
\* windows stay in the array, in the same order, each with the z-index, the
\* flags and the geometry it had.  A window id that is not in the array
\* enters it only by an openWindow of that id, which builds a new window
\* (not minimized, not maximized); no other operation brings a closed
\* window back.
C21_CloseRemoves ==
    [][ /\ lastOp'.op = "closeWindow" =>
              LET id == lastOp'.id
              IN  /\ ~HasWindow(windows', id)
                  /\ WindowIds(windows') = WindowIds(windows) \ {id}
                  /\ Len(windows') = Cardinality(WindowIds(windows'))
                  /\ \A i \in DOMAIN windows' :
                        /\ windows'[i] = WindowOf(windows, windows'[i].id)
                        /\ \A j \in DOMAIN windows' :
                              i < j => IndexOf(windows, windows'[i].id) < IndexOf(windows, windows'[j].id)
        /\ \A id \in WindowIds(windows') \ WindowIds(windows) :
              /\ lastOp'.op \in OpenOperations
              /\ lastOp'.id = id
              /\ lastOp'.branch = "new"
              /\ ~WindowOf(windows', id).minimized
              /\ ~WindowOf(windows', id).maximized ]_vars

\* closeWindow("about") took the lower window away and left the minimized,
\* maximized "games" window above it as it was
C21_Witness ==
    /\ lastOp = Op("closeWindow", "about", "known")
    /\ IdsInOrder(windows) = <<"games">>
    /\ windows[1].minimized
    /\ windows[1].maximized
    /\ windows[1].zIndex = 3

(***************************************************************************)
(* Placing icons: drags that commit a cell, and the relayouts that follow  *)
(* a viewport resize, a change of icon size, a sort and an unlock, on      *)
(* desktops whose origin is or is not the origin of the page.              *)
(***************************************************************************)
\* notes and about are on the desktop, games is in the start menu only
PlacementCatalog ==
    << SortIconDef("notes", <<"n", "o">>, <<>>, <<1>>),
       [SortIconDef("games", <<"g", "a">>, <<"a">>, <<>>) EXCEPT !.showOnDesktop = FALSE],
       SortIconDef("about", <<"a", "b">>, <<"a">>, <<3>>) >>

\* getBoundingClientRect() of desktop-main
PlacementRects ==
    { [left |-> 0, top |-> 0, width |-> 1280, height |-> 720],
      [left |-> 40, top |-> 24, width |-> 1240, height |-> 150] }

\* clientHeight after a resize
PlacementHeights == {150, 720}

\* where the icons are pressed
PressPoints == {[x |-> 100, y |-> 100]}

\* where the pointer goes and is released: on half a medium cell from the
\* origin (40, 24); left of every origin; far to the right
ReleasePoints ==
    { [x |-> 90, y |-> 174], [x |-> -20, y |-> 30], [x |-> 320, y |-> 30] }

InitPlacement ==
    /\ windows = <<>>
    /\ isLocked = TRUE
    /\ bsod = FALSE
    /\ bsodTimers = 0
    /\ startOpen = FALSE
    /\ calendarOpen = FALSE
    /\ contextMenu = [visible |-> FALSE, x |-> 0, y |-> 0]
    /\ calendar = InitialCalendar
    /\ data = PlacementCatalog
    /\ sortState = InitialSortState
    /\ allProcessedIcons = SortedIcons(data, sortState)
    /\ iconPositions = <<>>
    /\ iconSize = "medium"
    /\ desktopRect \in PlacementRects
    /\ drag = IdleDrag
    /\ gesture = NoGesture
    /\ sortCalls = <<>>
    /\ lastOp = Op("init", "", "")

\* a mousedown on a desktop icon: React delivers it to Icon.handleMouseDown,
\* and the document listener handleClickOutside sees it with a target that
\* is in none of the three surfaces
mouseDownOnIcon(id, point) ==
    /\ Rendered
    /\ id \in {allProcessedIcons[i].id : i \in {j \in DOMAIN allProcessedIcons : allProcessedIcons[j].showOnDesktop}}
    /\ drag.listening => id = drag.id
    /\ drag' = [drag EXCEPT !.id = id, !.listening = TRUE, !.hasMoved = FALSE,
                            !.startMousePos = point]
    /\ gesture' = [NoGesture EXCEPT !.repressed = drag.listening]
    /\ startOpen' = IF ClosedByClick("start", "outside") THEN FALSE ELSE startOpen
    /\ calendarOpen' = IF ClosedByClick("calendar", "outside") THEN FALSE ELSE calendarOpen
    /\ contextMenu' = IF ClosedByClick("context", "outside")
                      THEN [contextMenu EXCEPT !.visible = FALSE]
                      ELSE contextMenu
    /\ lastOp' = Op("handleMouseDown", id, "")
    /\ UNCHANGED <<winVars, isLocked, data, allProcessedIcons, iconPositions, sortState,
                   iconSize, desktopRect, sortCalls>>

\* a click on an item of the "View" submenu: item.action() is
\* setIconSize(size), then onClose().  A new size makes a new cellSize and a
\* new calculateLayout, which the layout effect runs; the same size changes
\* no state of the layout.
viewItemClick(size) ==
    /\ Rendered
    /\ contextMenu.visible
    /\ iconSize' = size
    /\ iconPositions' =
          IF size = iconSize THEN iconPositions
          ELSE calculateLayout(DesktopIconsToRender(allProcessedIcons), ~isLocked,
                               desktopRect, CellSize(size), iconPositions)
    /\ contextMenu' = [contextMenu EXCEPT !.visible = FALSE]
    /\ lastOp' = Op("setIconSize", size, IF size = iconSize THEN "same" ELSE "calculateLayout")
    /\ UNCHANGED <<winVars, startOpen, calendarOpen, isLocked, data, allProcessedIcons, sortState,
                   desktopRect, dragVars, sortCalls>>

NextPlacement ==
    \/ handleUnlock
    \/ \E id \in CatalogIds, p \in PressPoints : ~drag.listening /\ mouseDownOnIcon(id, p)
    \/ \E p \in ReleasePoints : handleMouseMove(p)
    \/ \E p \in ReleasePoints : handleMouseUp(p)
    \/ \E h \in PlacementHeights : windowResize(h)
    \/ \E p \in ContextMenuPoints : handleContextMenu(p)
    \/ \E size \in IconSizes : viewItemClick(size)
    \/ Len(sortCalls) < MaxSortCalls /\ sortIcons("name")

SpecPlacement == InitPlacement /\ [][NextPlacement]_vars

(***************************************************************************)
(* Properties of icon placement.                                           *)
(***************************************************************************)
\* c is max(0, round(n / d)): round(n / d) is the integer r with
\* r - 1/2 <= n / d < r + 1/2
IsClampedRound(c, n, d) ==
    /\ c >= 0
    /\ c > 0 => (2 * d * c <= 2 * n + d /\ 2 * n + d < 2 * d * (c + 1))
    /\ c = 0 => 2 * n + d < 2 * d

\* the step ran calculateLayout
RelayoutStep ==
    \/ lastOp'.op \in {"handleUnlock", "handleResize", "sortIcons"}
    \/ lastOp'.op = "setIconSize" /\ lastOp'.branch = "calculateLayout"

\* the step is a release that called updateIconPosition
CommitStep == lastOp'.op = "handleMouseUp" /\ lastOp'.branch = "commit"

\* C22: updateIconPosition(id, pointerX, pointerY), called by the release
\* of a drag, sets the cell of icon id to
\* (max(0, round((pointerX - left) / cellSize)), max(0, round((pointerY - top) / cellSize)))
\* and leaves the cell of every other icon as it was; every stored cell has
\* col >= 0 and row >= 0 in every reachable state; and a stored cell
\* changes only by a commit or by a step that runs the full layout.
C22_CommitCell ==
    /\ [](\A id \in DOMAIN iconPositions : iconPositions[id].x >= 0 /\ iconPositions[id].y >= 0)
    /\ [][ /\ CommitStep =>
                LET id == lastOp'.id
                    p == gesture'.release
                    cs == CellSize(iconSize)
                IN  /\ DOMAIN iconPositions' = DOMAIN iconPositions \cup {id}
                    /\ IsClampedRound(iconPositions'[id].x, p.x - desktopRect.left, cs)
                    /\ IsClampedRound(iconPositions'[id].y, p.y - desktopRect.top, cs)
                    /\ \A other \in DOMAIN iconPositions \ {id} :
                          iconPositions'[other] = iconPositions[other]
            /\ (~CommitStep /\ ~RelayoutStep) => iconPositions' = iconPositions ]_vars

\* "notes" was released half a medium cell right of and one and a half cells
\* below the origin (40, 24): it is at cell (1, 2), "about" stays at (0, 0)
C22_Witness ==
    /\ lastOp = Op("handleMouseUp", "notes", "commit")
    /\ desktopRect.left = 40
    /\ desktopRect.top = 24
    /\ iconSize = "medium"
    /\ gesture.release = [x |-> 90, y |-> 174]
    /\ iconPositions["notes"] = [x |-> 1, y |-> 2]
    /\ iconPositions["about"] = [x |-> 0, y |-> 0]

\* the icon list, the cell size or the viewport is not what it was
LayoutInputsChange ==
    \/ allProcessedIcons' # allProcessedIcons
    \/ lastOp'.op = "sortIcons"
    \/ CellSize(iconSize') # CellSize(iconSize)
    \/ desktopRect' # desktopRect

\* the position map is the automatic layout of the desktop list
AutomaticLayout ==
    /\ DOMAIN iconPositions = DesktopIds
    /\ \A i \in DOMAIN DesktopList :
          iconPositions[DesktopList[i].id] =
              [x |-> (i - 1) \div CurrentMaxRows, y |-> (i - 1) % CurrentMaxRows]

\* C23: a step that runs calculateLayout with maxRows > 0 on a non-empty
\* desktop list leaves the position map with exactly the icons of the
\* desktop list after the step, the i-th (0-based) at column i div maxRows
\* and row i mod maxRows, whatever cells drags had committed before; and
\* every step on the unlocked desktop that changes the icon list (a sort
\* included, whether or not it changes the order), the cell size or the
\* viewport runs calculateLayout.
C23_RelayoutDiscards ==
    [][ /\ (RelayoutStep /\ CurrentMaxRows' > 0 /\ DesktopIds' # {}) => AutomaticLayout'
        /\ (LayoutInputsChange /\ ~isLocked') => RelayoutStep ]_vars

\* "notes" was dragged to the cell (3, 0); the sort that followed put it at
\* the head of the descending list and back into the first column
C23_Witness ==
    /\ lastOp = Op("sortIcons", "name", "asc")
    /\ sortCalls = <<"name">>
    /\ gesture.delivered = << [id |-> "notes", mouseX |-> 320, mouseY |-> 30] >>
    /\ desktopRect.height = 720
    /\ iconPositions = [notes |-> [x |-> 0, y |-> 0], about |-> [x |-> 0, y |-> 1]]

(***************************************************************************)
(* Properties of the menu coordinator.                                     *)
(***************************************************************************)
\* the step is a toggle that found its menu closed
OpensStartMenu == lastOp'.op = "toggleStartMenu" /\ lastOp'.branch = "open"

OpensCalendar == lastOp'.op = "toggleCalendar" /\ lastOp'.branch = "open"

C25_ToggleFlips ==
    [][ /\ lastOp'.op = "toggleStartMenu" =>
              /\ startOpen' = ~startOpen
              /\ lastOp'.branch = (IF startOpen THEN "close" ELSE "open")
              /\ ~calendarOpen'
        /\ lastOp'.op = "toggleCalendar" =>
              /\ calendarOpen' = ~calendarOpen
              /\ lastOp'.branch = (IF calendarOpen THEN "close" ELSE "open")
              /\ ~startOpen' ]_vars

\* toggleCalendar has just closed the open calendar
C25_Witness ==
    /\ lastOp = Op("toggleCalendar", "", "close")
    /\ ~calendarOpen
    /\ ~startOpen

(***************************************************************************)
(* The session: the menus, lock and unlock, one application window, and    *)
(* the mousedown and resize events of the page, which arrive whether the   *)
(* session is locked or not.                                               *)
(***************************************************************************)
\* where the pointer may be at a contextmenu event (clientX, clientY)
MenuPoints == {[x |-> 200, y |-> 120], [x |-> 640, y |-> 360]}

\* clientHeight after a resize
SessionHeights == {150, 720}

\* the effect of Desktop adds the document mousedown listener when it runs
\* unlocked and its cleanup removes it
ClickOutsideAttached == ~isLocked

\* a mousedown somewhere on the page; while locked the page shows the
\* lock screen only
documentMouseDown(target) ==
    IF ClickOutsideAttached
    THEN handleClickOutside(target)
    ELSE /\ target = "lockscreen"
         /\ lastOp' = Op("mousedown", target, "detached")
         /\ UNCHANGED <<winVars, menuVars, isLocked, iconVars>>

InitSession == InitWith(WindowCatalog)

NextSession ==
    \/ handleUnlock
    \/ handleLockClick
    \/ toggleStartMenu
    \/ toggleCalendar
    \/ \E p \in MenuPoints : handleContextMenu(p)
    \/ closeContextMenu
    \/ \E t \in ClickTargets \cup {"lockscreen"} : documentMouseDown(t)
    \/ \E h \in SessionHeights : windowResize(h)
    \/ ZRoom /\ openWindow(allProcessedIcons[1])

SpecSession == InitSession /\ [][NextSession]_vars

\* C26: handleContextMenu with the pointer at (x, y) leaves the context
\* menu visible at exactly (x, y), whether it was hidden or already visible
\* at another position, and whatever the start menu and the calendar are;
\* the start-menu flag and the calendar flag are not changed by it.
C26_ContextMenuOpens ==
    [][ lastOp'.op = "handleContextMenu" =>
            /\ contextMenu' = [visible |-> TRUE, x |-> lastOp'.x, y |-> lastOp'.y]
            /\ lastOp'.branch = (IF contextMenu.visible THEN "visible" ELSE "hidden")
            /\ startOpen' = startOpen
            /\ calendarOpen' = calendarOpen ]_vars

\* the context menu was already on screen and has moved to (640, 360)
\* while the start menu is open
C26_Witness ==
    /\ lastOp = OpAt("handleContextMenu", [x |-> 640, y |-> 360], "visible")
    /\ contextMenu = [visible |-> TRUE, x |-> 640, y |-> 360]
    /\ startOpen

\* C27: a mousedown on the unlocked page tests each of the three surfaces
\* on its own: a visible surface that does not contain the target is
\* closed, a visible surface that contains the target stays open, a closed
\* surface stays closed, and the position of the context menu is kept; a
\* mousedown outside all of them leaves no surface visible, two at once if
\* two were visible.
C27_ClickOutside ==
    [][ lastOp'.op = "handleClickOutside" =>
            LET target == lastOp'.id
            IN  /\ ~isLocked
                /\ startOpen' = (startOpen /\ target = "start")
                /\ calendarOpen' = (calendarOpen /\ target = "calendar")
                /\ contextMenu'.visible = (contextMenu.visible /\ target = "context")
                /\ contextMenu'.x = contextMenu.x
                /\ contextMenu'.y = contextMenu.y
                /\ target = "outside" => NoMenuVisible'
                /\ lastOp'.branch = "closes two" =>
                      Cardinality(VisibleSurfaces) - Cardinality(VisibleSurfaces') = 2 ]_vars

\* a mousedown outside has closed two surfaces at once; the context menu
\* keeps its position
C27_Witness ==
    /\ lastOp = Op("handleClickOutside", "outside", "closes two")
    /\ NoMenuVisible
    /\ contextMenu.x = 640

\* C28: while the session is locked neither the click-outside listener nor
\* the resize listener runs: a mousedown or a resize of the viewport that
\* arrives while locked changes no menu flag, no icon position and no
\* window; on the unlocked session a mousedown runs handleClickOutside and
\* a resize runs calculateLayout again.
C28_LockedDetached ==
    [][ /\ (isLocked /\ isLocked') =>
              /\ lastOp'.op \notin {"handleClickOutside", "handleResize"}
              /\ menuVars' = menuVars
              /\ iconPositions' = iconPositions
              /\ windows' = windows
        /\ lastOp'.op \in {"mousedown", "resize"} => (isLocked /\ lastOp'.branch = "detached")
        /\ (~isLocked /\ desktopRect' # desktopRect) =>
              (lastOp' = Op("handleResize", "", "calculateLayout") /\ AutomaticLayout') ]_vars

\* the viewport has shrunk while the session was locked with a window
\* open: the icons keep the cells of the tall viewport
C28_Witness ==
    /\ lastOp = Op("resize", "", "detached")
    /\ isLocked
    /\ desktopRect.height = 150
    /\ iconPositions = [about |-> [x |-> 0, y |-> 0], games |-> [x |-> 0, y |-> 1]]
    /\ Len(windows) = 1
    /\ windows[1].minimized

\* the session starts locked, unlock leads from locked to unlocked and lock
\* from unlocked to locked
LockTransitions ==
    /\ [](lastOp.op = "init" => isLocked)
    /\ [][ /\ lastOp'.op = "handleUnlock" => (isLocked /\ ~isLocked')
           /\ lastOp'.op = "handleLock" => (~isLocked /\ isLocked')
           /\ isLocked' # isLocked => lastOp'.op \in {"handleUnlock", "handleLock"} ]_vars

iconStyle(gridPosition, cellSize, offset) ==
    [x |-> gridPosition.x * cellSize + offset.x, y |-> gridPosition.y * cellSize + offset.y]

\* gridPosition={iconPositions[icon.id] || { x: 0, y: 0 }}
gridPositionOf(id) == IF id \in DOMAIN iconPositions THEN iconPositions[id] ELSE [x |-> 0, y |-> 0]

\* the transform of the icon the controller belongs to
DraggedStyle == iconStyle(gridPositionOf(drag.id), CellSize(iconSize), drag.offset)

\* C30: a move event between press and release changes the controller
\* only: the hasMoved latch, the dragging flag and the offset, and with
\* them the transform the icon is drawn at, which follows the pointer once
\* the threshold is passed.  The icon-position map, the windows, the menus,
\* the lock and the sort order are unchanged by every move event, and while
\* the listeners are attached the position map changes at the release only.
C30_MoveIsVisual ==
    [][ /\ lastOp'.op = "handleMouseMove" =>
              /\ iconPositions' = iconPositions
              /\ windows' = windows
              /\ <<isLocked, menuVars, allProcessedIcons, sortState, iconSize, desktopRect>>' =
                    <<isLocked, menuVars, allProcessedIcons, sortState, iconSize, desktopRect>>
              /\ drag'.id = drag.id
              /\ drag'.listening
              /\ drag'.startMousePos = drag.startMousePos
              /\ ~drag'.hasMoved => DraggedStyle' = DraggedStyle
              /\ drag'.hasMoved =>
                    /\ drag'.isDragging
                    /\ \E p \in PointerPoints :
                          DraggedStyle' =
                              [x |-> gridPositionOf(drag.id).x * CellSize(iconSize) + p.x - drag.startMousePos.x,
                               y |-> gridPositionOf(drag.id).y * CellSize(iconSize) + p.y - drag.startMousePos.y]
        /\ (drag.listening /\ iconPositions' # iconPositions) => lastOp'.op = "handleMouseUp" ]_vars

\* "games", at cell (0, 1), was pressed at (100, 100) and the pointer is at
\* (320, 30): the icon is drawn 220 px to the right and 70 px up, its cell
\* is still (0, 1)
C30_Witness ==
    /\ lastOp = Op("handleMouseMove", "games", "")
    /\ drag.isDragging
    /\ drag.startMousePos = [x |-> 100, y |-> 100]
    /\ drag.offset = [x |-> 220, y |-> -70]
    /\ iconPositions["games"] = [x |-> 0, y |-> 1]
    /\ DraggedStyle = [x |-> 220, y |-> 30]

(***************************************************************************)
(* Minimum window size.                                                    *)
(***************************************************************************)
\* Window: minWidth={320} minHeight={240}, props of Rnd
MIN_WIDTH == 320
MIN_HEIGHT == 240

\* C31 as claimed: after handleWindowResize(id, newSize, newPosition) on an
\* open window, whatever newSize is, the stored width is at least 320 and
\* the stored height is at least 240.
C31_ResizeClamped ==
    [][ (lastOp'.op = "handleWindowResize" /\ lastOp'.branch = "known") =>
            LET w == WindowOf(windows', lastOp'.id)
            IN  /\ ~w.size.auto
                /\ w.size.width >= MIN_WIDTH
                /\ w.size.height >= MIN_HEIGHT ]_vars

\* handleWindowResize("about", {width: "400px", height: "auto"}, ...) has
\* stored the height NaN
C31_Witness ==
    /\ lastOp = Op("handleWindowResize", "about", "known")
    /\ WindowOf(windows, "about").size = PxSize(400, NaN)

(***************************************************************************)
(* Calendar paging.                                                        *)
(***************************************************************************)
\* event.deltaY of a wheel event: up, a movement too small to count, down
WheelDeltas == {-100, 0, 100}
\* the cells of the month grid and of the year grid that are clicked
SelectMonths == {0, 11}
SelectYears == {0, 2}

InitCalendar == InitWith(WindowCatalog)

NextCalendar ==
    \/ handleUnlock
    \/ toggleCalendar
    \/ handlePrev
    \/ handleNext
    \/ handleHeaderClick
    \/ \E monthIndex \in SelectMonths : handleSelectMonth(monthIndex)
    \/ \E year \in SelectYears : handleSelectYear(year)
    \/ \E deltaY \in WheelDeltas : handleWheelScroll(deltaY)
    \/ displayTimeout
    \/ scrollTimeout

SpecCalendar == InitCalendar /\ [][NextCalendar]_vars

\* the browser runs every timeout that was set
SpecCalendarLive ==
    SpecCalendar /\ WF_vars(displayTimeout) /\ WF_vars(scrollTimeout)

\* C32 as claimed: at most one display change is pending at any time,
\* whichever of the wheel, the prev/next buttons and the header started it.
C32_OnePendingChange == Cardinality(PendingDisplay(calendar)) <= 1

\* two clicks of the next button within 250 ms: two display changes are
\* pending and the navigation-in-flight flag was never set
C32_Witness ==
    /\ lastOp = Op("handleNext", "", "transition")
    /\ Cardinality(PendingDisplay(calendar)) = 2
    /\ ~calendar.isScrolling

\* the part of C32 that the code keeps: a set flag is cleared again, and
\* while it is set no handler starts a transition
C32_FlagCleared == calendar.isScrolling ~> ~calendar.isScrolling

C32_FlagBlocks ==
    [][ (calendar.isScrolling /\ lastOp'.op \notin {"displayTimeout", "scrollTimeout"}) =>
            calendar'.timers = calendar.timers ]_vars

(***************************************************************************)
(* The sorted catalog, as the layout and the start menu read it.           *)
(***************************************************************************)
\* Desktop.startMenuItems: about, contact, then the programs, then the
\* files, each group in the order of allProcessedIcons
startMenuItems(icons) ==
    SelectSeq(icons, LAMBDA icon : icon.id = "about")
        \o SelectSeq(icons, LAMBDA icon : icon.id = "contact")
        \o SelectSeq(icons, LAMBDA icon : ~icon.filePath /\ icon.id \notin {"about", "contact"})
        \o SelectSeq(icons, LAMBDA icon : icon.filePath)

\* a is not behind b in the order of the sort state
InSortOrder(a, b, state) ==
    LET stamp(icon) == IF icon.dateModified = <<>> THEN 0 ELSE icon.dateModified[1]
        up == CASE state.key = "name" -> localeCompare(a.title, b.title) <= 0
                [] state.key = "type" -> localeCompare(a.type, b.type) <= 0
                [] state.key = "dateModified" -> stamp(a) <= stamp(b)
        down == CASE state.key = "name" -> localeCompare(a.title, b.title) >= 0
                  [] state.key = "type" -> localeCompare(a.type, b.type) >= 0
                  [] state.key = "dateModified" -> stamp(a) >= stamp(b)
    IN  IF state.direction = "asc" THEN up ELSE down

\* the menu entries that are neither about nor contact
IsListed(icon) == icon.id \notin {"about", "contact"}

\* C33: allProcessedIcons, which the layout and the start menu read, is
\* always the icons of the data file in the order of the current sort
\* state: by title for name, by type (a missing type being the empty
\* string) for type, by time value (a missing or empty dateModified being
\* 0) for dateModified, ascending or, for desc, the other way round; the
\* programs of the start menu follow that order; and after every sortIcons
\* the i-th desktop icon of that order is in the i-th cell of the
\* column-major layout.
C33_SortedOrder ==
    /\ [](/\ Len(allProcessedIcons) = Len(data)
          /\ {allProcessedIcons[i] : i \in DOMAIN allProcessedIcons} = {data[i] : i \in DOMAIN data}
          /\ \A i, j \in DOMAIN allProcessedIcons :
                i < j => InSortOrder(allProcessedIcons[i], allProcessedIcons[j], sortState)
          /\ LET items == startMenuItems(allProcessedIcons)
             IN  \A i, j \in DOMAIN items :
                    (i < j /\ IsListed(items[i]) /\ IsListed(items[j])) =>
                        InSortOrder(items[i], items[j], sortState))
    /\ [][ lastOp'.op = "sortIcons" =>
              LET list == DesktopIconsToRender(allProcessedIcons')
                  rows == desktopRect'.height \div CellSize(iconSize')
              IN  /\ rows > 0
                  /\ DOMAIN iconPositions' = {list[i].id : i \in DOMAIN list}
                  /\ \A i \in DOMAIN list :
                        iconPositions'[list[i].id] =
                            [x |-> (i - 1) \div rows, y |-> (i - 1) % rows] ]_vars

\* sorted by date: the icon without a date is first and in the first cell,
\* the two icons of one date keep the order of the file
C33_Witness ==
    /\ lastOp = Op("sortIcons", "dateModified", "other key")
    /\ allProcessedIcons[1].id = "games"
    /\ iconPositions["games"] = [x |-> 0, y |-> 0]
    /\ IdsInOrder(allProcessedIcons) = <<"games", "notes", "a", "about">>
    /\ IdsInOrder(startMenuItems(allProcessedIcons)) = <<"about", "games", "notes", "a">>

(***************************************************************************)
(* A mouse click on a taskbar trigger: the mousedown reaches the document  *)
(* listener, then the click reaches the trigger's onClick.                 *)
(***************************************************************************)
\* the start button and the clock of the Taskbar
Triggers == {"start", "calendar"}

\* whether an event of a click is still to come
Pressed == lastOp.op = "mousedown on trigger"

\* mousedown on a trigger: document's listener runs handleClickOutside with
\* a target inside the taskbar, which no menu contains.  The branch keeps
\* whether the trigger's own menu was open.
mouseDownOnTrigger(trigger) ==
    /\ Rendered
    /\ ~Pressed
    /\ startOpen' = IF ClosedByClick("start", "outside") THEN FALSE ELSE startOpen
    /\ calendarOpen' = IF ClosedByClick("calendar", "outside") THEN FALSE ELSE calendarOpen
    /\ contextMenu' = IF ClosedByClick("context", "outside")
                      THEN [contextMenu EXCEPT !.visible = FALSE]
                      ELSE contextMenu
    /\ lastOp' = Op("mousedown on trigger", trigger,
                    IF SurfaceVisible(trigger) THEN "open" ELSE "closed")
    /\ UNCHANGED <<winVars, isLocked, iconVars>>

\* the click that follows: onClick={toggleStartMenu} of the start button,
\* onClick={toggleCalendar} of the clock
clickOnTrigger ==
    /\ Pressed
    /\ IF lastOp.id = "start"
       THEN /\ calendarOpen' = FALSE
            /\ startOpen' = ~startOpen
       ELSE /\ startOpen' = FALSE
            /\ calendarOpen' = ~calendarOpen
    /\ lastOp' = Op("click on trigger", lastOp.id, lastOp.branch)
    /\ UNCHANGED <<contextMenu, winVars, isLocked, iconVars>>

InitPointer == InitWith(WindowCatalog)

\* between the mousedown and its click no other handler runs
NextPointer ==
    \/ \E trigger \in Triggers : mouseDownOnTrigger(trigger)
    \/ clickOnTrigger
    \/ ~Pressed /\ handleUnlock
    \/ ~Pressed /\ handleLockClick
    \/ ~Pressed /\ toggleStartMenu
    \/ ~Pressed /\ \E p \in MenuPoints : handleContextMenu(p)
    \/ ~Pressed /\ \E target \in ClickTargets \cup {"lockscreen"} : documentMouseDown(target)
    \/ ~Pressed /\ ZRoom /\ \E i \in DOMAIN allProcessedIcons : handleMenuItemClick(allProcessedIcons[i])

SpecPointer == InitPointer /\ [][NextPointer]_vars

\* C34 as claimed: a mouse click on the start button while the start menu
\* is open leaves the start menu closed, and a mouse click on the clock
\* while the calendar is open leaves the calendar closed.
C34_SecondClickCloses ==
    (lastOp.op = "click on trigger" /\ lastOp.branch = "open") =>
        ~SurfaceVisible(lastOp.id)

\* the start menu was open, the mousedown closed it and the click opened
\* it again
C34_Witness ==
    /\ lastOp = Op("click on trigger", "start", "open")
    /\ startOpen
    /\ ~calendarOpen

(***************************************************************************)
(* The start menu and the calendar exclude each other.                     *)
(***************************************************************************)
\* the operations that write startOpen or calendarOpen, and the others C35 names
MenuOperations ==
    {"toggleStartMenu", "toggleCalendar", "handleContextMenu", "handleClickOutside",
     "handleMenuItemClick", "handleLock", "handleUnlock"}

\* C35: the start menu and the calendar are never both open: not at the
\* start, and after no toggleStartMenu, toggleCalendar, handleContextMenu,
\* click outside, activation of a start-menu item, lock or unlock; an
\* operation that opens one of the two leaves the other closed.
C35_NeverBothOpen ==
    /\ [](startOpen => ~calendarOpen)
    /\ [][ lastOp'.op \in MenuOperations =>
              /\ (~startOpen /\ startOpen') => ~calendarOpen'
              /\ (~calendarOpen /\ calendarOpen') => ~startOpen' ]_vars

\* the start menu opened over an open window, the calendar closed
C35_Witness ==
    /\ lastOp = Op("toggleStartMenu", "", "open")
    /\ startOpen
    /\ ~calendarOpen
    /\ ~contextMenu.visible
    /\ windows # <<>>

(***************************************************************************)
(* The focused window of the Taskbar and the top window of the Desktop.    *)
(***************************************************************************)
RECURSIVE ReduceFocused(_, _, _)
\* .reduce((prev, current) => !prev ? current
\*            : prev.zIndex > current.zIndex ? prev : current, null):
\* the index kept, 0 for null
ReduceFocused(ws, i, prev) ==
    IF i > Len(ws) THEN prev
    ELSE ReduceFocused(ws, i + 1,
                       IF prev = 0 THEN i
                       ELSE IF ws[prev].zIndex > ws[i].zIndex THEN prev ELSE i)

\* focusedId taken over all windows, minimized ones included
focusedId_IncludesMinimized(ws) ==
    LET prev == ReduceFocused(ws, 1, 0)
    IN  IF prev = 0 THEN "" ELSE ws[prev].id

\* Taskbar.focusedId: focusedWindow?.id || null, "" for null
focusedId(ws) ==
    LET visible == SelectSeq(ws, LAMBDA w : ~w.minimized)
        prev == ReduceFocused(visible, 1, 0)
    IN  IF prev = 0 THEN "" ELSE visible[prev].id

\* C36: the focusedId of the Taskbar is the topWindow of
\* Desktop.handleTaskbarClick: the one window that is not minimized and
\* has the largest z-index among the windows that are not minimized, and
\* none when every window is minimized or there is no window.
C36_FocusedIsTop ==
    LET shown == {i \in DOMAIN windows : ~windows[i].minimized}
    IN  /\ focusedId(windows) = TopWindowId(windows)
        /\ shown = {} => focusedId(windows) = ""
        /\ shown # {} =>
              \E i \in shown :
                  /\ focusedId(windows) = windows[i].id
                  /\ \A j \in shown \ {i} : windows[j].zIndex < windows[i].zIndex

\* two windows: the one in front is minimized, so the other is focused
C36_Witness ==
    /\ Len(windows) = 2
    /\ \E i, j \in DOMAIN windows :
          /\ windows[i].minimized
          /\ ~windows[j].minimized
          /\ windows[i].zIndex > windows[j].zIndex
          /\ focusedId(windows) = windows[j].id

(***************************************************************************)
(* The drag latch.                                                         *)
(***************************************************************************)
\* the point is within the threshold of the press point
NearPress(point) ==
    LET dx == point.x - drag.startMousePos.x
        dy == point.y - drag.startMousePos.y
    IN  dx * dx + dy * dy <= DRAG_THRESHOLD * DRAG_THRESHOLD

\* C37: once a move event has exceeded the 5 px threshold the drag is
\* latched: no later move event, back within 5 px or onto the press point
\* itself, clears hasMoved, and the release commits with its own
\* coordinates wherever it is.  The release and the next press clear the
\* latch, so a following press and release without a move beyond the
\* threshold commits nothing.
C37_DragLatched ==
    [][ /\ (lastOp'.op = "handleMouseMove" /\ drag.hasMoved) => drag'.hasMoved
        /\ (lastOp'.op = "handleMouseMove" /\ ThresholdWasExceeded) => drag'.hasMoved
        /\ (lastOp'.op = "handleMouseUp" /\ ThresholdWasExceeded) =>
              /\ lastOp'.branch = "commit"
              /\ gesture'.delivered = << [id |-> drag.id, mouseX |-> gesture'.release.x,
                                         mouseY |-> gesture'.release.y] >>
              /\ iconPositions'[drag.id] =
                    [x |-> GridCoord(gesture'.release.x - desktopRect.left, CellSize(iconSize)),
                     y |-> GridCoord(gesture'.release.y - desktopRect.top, CellSize(iconSize))]
        /\ lastOp'.op \in {"handleMouseUp", "handleMouseDown"} => ~drag'.hasMoved
        /\ (lastOp'.op = "handleMouseUp" /\ ~ThresholdWasExceeded) =>
              (lastOp'.branch = "click" /\ iconPositions' = iconPositions) ]_vars

\* the pointer went beyond the threshold, came back, and was released on
\* the press point: the release committed there
C37_Witness ==
    /\ lastOp = Op("handleMouseUp", "about", "commit")
    /\ gesture.release = drag.startMousePos
    /\ gesture.release = [x |-> 100, y |-> 100]
    /\ gesture.maxD2 = 36
    /\ gesture.delivered = << [id |-> "about", mouseX |-> 100, mouseY |-> 100] >>
    /\ iconPositions["about"] = [x |-> 1, y |-> 1]

(***************************************************************************)
(* Icons sharing a cell.                                                   *)
(***************************************************************************)
\* the pairs of icons stored on one cell
SharedCells(positions) ==
    {pair \in (DOMAIN positions) \X (DOMAIN positions) :
        pair[1] # pair[2] /\ positions[pair[1]] = positions[pair[2]]}

\* C38: updateIconPosition checks no occupancy: when the release of a drag
\* falls on the cell of another icon, the dragged icon is stored on that
\* cell and the other icon stays on it, so two icons share a cell; the next
\* step that runs the full layout gives every icon a cell of its own again.
C38_NoOccupancyCheck ==
    [][ /\ CommitStep =>
              LET id == lastOp'.id
                  cell == [x |-> GridCoord(gesture'.release.x - desktopRect.left, CellSize(iconSize)),
                           y |-> GridCoord(gesture'.release.y - desktopRect.top, CellSize(iconSize))]
              IN  \A other \in DOMAIN iconPositions \ {id} :
                      iconPositions[other] = cell =>
                          /\ iconPositions'[id] = cell
                          /\ iconPositions'[other] = cell
                          /\ <<id, other>> \in SharedCells(iconPositions')
        /\ (RelayoutStep /\ desktopRect'.height \div CellSize(iconSize') > 0) =>
              SharedCells(iconPositions') = {} ]_vars

\* "notes" was released left of the desktop, on cell (0, 0), where "about" is
C38_Witness ==
    /\ lastOp = Op("handleMouseUp", "notes", "commit")
    /\ gesture.release = [x |-> -20, y |-> 30]
    /\ iconPositions["notes"] = [x |-> 0, y |-> 0]
    /\ iconPositions["about"] = [x |-> 0, y |-> 0]
    /\ SharedCells(iconPositions) # {}

(***************************************************************************)
(* Dragging across lock and unlock.                                        *)
(***************************************************************************)
\* where an icon is pressed, and where the pointer goes and is released
LockPressPoints == {[x |-> 100, y |-> 100]}
LockDragPoints == {[x |-> 100, y |-> 100], [x |-> 103, y |-> 104], [x |-> 320, y |-> 230]}

InitLockDrag == InitWith(DragCatalog)

\* the listeners an Icon attached to document stay attached when lock
\* unmounts the Icon; the start button answers the keyboard while the mouse
\* button is down
NextLockDrag ==
    \/ handleUnlock
    \/ toggleStartMenu
    \/ handleLockClick
    \/ \E id \in CatalogIds, p \in LockPressPoints : ~drag.listening /\ mouseDownOnIcon(id, p)
    \/ \E p \in LockDragPoints : handleMouseMove(p)
    \/ \E p \in LockDragPoints : handleMouseUp(p)

SpecLockDrag == InitLockDrag /\ [][NextLockDrag]_vars

\* C39: every step from locked to unlocked runs the full layout: with at
\* least one row and one desktop icon, the i-th desktop icon (0-based) is
\* at column i div maxRows, row i mod maxRows after it and no other entry is
\* kept, whatever was committed by drags before the lock; the lock itself
\* leaves the position map as it was.
C39_UnlockDiscardsPlacements ==
    [][ /\ (isLocked /\ ~isLocked') =>
              LET list == DesktopIconsToRender(allProcessedIcons')
                  rows == desktopRect'.height \div CellSize(iconSize')
              IN  (rows > 0 /\ list # <<>>) =>
                      /\ DOMAIN iconPositions' = {list[i].id : i \in DOMAIN list}
                      /\ \A i \in DOMAIN list :
                            iconPositions'[list[i].id] =
                                [x |-> (i - 1) \div rows, y |-> (i - 1) % rows]
        /\ (~isLocked /\ isLocked') => iconPositions' = iconPositions ]_vars

\* "about" had been dragged to cell (3, 2); after lock and unlock it is
\* back on cell (0, 0)
C39_Witness ==
    /\ lastOp = Op("handleUnlock", "", "")
    /\ gesture.delivered = << [id |-> "about", mouseX |-> 320, mouseY |-> 230] >>
    /\ iconPositions = [about |-> [x |-> 0, y |-> 0], games |-> [x |-> 0, y |-> 1]]

\* C40: a release that reaches the document listener while the session is
\* locked changes no icon position, also when the threshold had been
\* exceeded and the release calls the commit callback; the controller is
\* idle after it: not listening, latch and dragging flag cleared.
C40_LockedReleaseCommitsNothing ==
    [][ (lastOp'.op = "handleMouseUp" /\ isLocked) =>
            /\ iconPositions' = iconPositions
            /\ ~drag'.listening
            /\ ~drag'.hasMoved
            /\ ~drag'.isDragging
            /\ drag'.offset = [x |-> 0, y |-> 0]
            /\ drag.hasMoved => lastOp'.branch = "commit" ]_vars

\* "about" was pressed and moved beyond the threshold, the session was
\* locked, and the release far from the press point left "about" on its cell
C40_Witness ==
    /\ lastOp = Op("handleMouseUp", "about", "commit")
    /\ isLocked
    /\ gesture.maxD2 > DRAG_THRESHOLD * DRAG_THRESHOLD
    /\ gesture.release = [x |-> 320, y |-> 230]
    /\ iconPositions["about"] = [x |-> 0, y |-> 0]
    /\ drag = [IdleDrag EXCEPT !.id = "about", !.startMousePos = [x |-> 100, y |-> 100]]

====
